---------------------------- MODULE Spec2Model ----------------------------
(***************************************************************************)
(* Market-state / trend-classification / strategy-decision pipeline of    *)
(* the trading bot: TrendAnalyzer (trend-analyzer.ts), TradingStrategy     *)
(* (trading-strategy.ts) and the feed lookups they use.                    *)
(*                                                                         *)
(* Numbers.  A JavaScript number is modelled as a pair <<n, d>>: the       *)
(* rational n/d in lowest terms with d > 0, or one of the three IEEE       *)
(* specials <<1,0>> (+Infinity), <<-1,0>> (-Infinity), <<0,0>> (NaN).      *)
(* Arithmetic is exact; the only rounding is the one the code asks for     *)
(* (toFixed) and the rounding of stored money amounts to 1/Scale, which    *)
(* stands for binary64 rounding and keeps the numbers finite.              *)
(***************************************************************************)
EXTENDS Integers, Sequences, FiniteSets, TLC

----------------------------------------------------------------------------
(* Arithmetic on JavaScript numbers *)

RECURSIVE GCD(_, _)
GCD(a, b) == IF b = 0 THEN a ELSE GCD(b, a % b)

Abs(i) == IF i < 0 THEN -i ELSE i

Sgn(i) == IF i < 0 THEN -1 ELSE IF i > 0 THEN 1 ELSE 0

\* n/d in lowest terms, d > 0; a zero denominator gives a special
Norm(n, d) ==
    IF d = 0 THEN <<Sgn(n), 0>>
    ELSE LET g == GCD(Abs(n), Abs(d))
         IN  IF d < 0 THEN <<(-n) \div g, (-d) \div g>>
                      ELSE <<n \div g, d \div g>>

R(i) == <<i, 1>>

Frac(n, d) == Norm(n, d)

NaN == <<0, 0>>

IsNaN(x) == x = NaN

IsFinite(x) == x[2] # 0

RNeg(x) == <<-x[1], x[2]>>

RAbs(x) == <<Abs(x[1]), x[2]>>

\* x * y, cross-reduced before multiplying (Infinity * 0 = NaN falls out)
RMul(x, y) ==
    IF x[2] = 0 \/ y[2] = 0 THEN <<Sgn(x[1]) * Sgn(y[1]), 0>>
    ELSE LET g1 == GCD(Abs(x[1]), y[2])
             g2 == GCD(Abs(y[1]), x[2])
         IN  IF x[1] = 0 \/ y[1] = 0 THEN <<0, 1>>
             ELSE <<(x[1] \div g1) * (y[1] \div g2), (x[2] \div g2) * (y[2] \div g1)>>

RAdd(x, y) ==
    IF IsNaN(x) \/ IsNaN(y) THEN NaN
    ELSE IF x[2] = 0 /\ y[2] = 0 THEN (IF x[1] = y[1] THEN x ELSE NaN)
    ELSE IF x[2] = 0 THEN x
    ELSE IF y[2] = 0 THEN y
    ELSE LET g == GCD(x[2], y[2])
         IN  Norm(x[1] * (y[2] \div g) + y[1] * (x[2] \div g), (x[2] \div g) * y[2])

RSub(x, y) == RAdd(x, RNeg(y))

\* 1/y: 1/0 = +Infinity, 1/Infinity = 0, 1/NaN = NaN
RInv(y) ==
    IF IsNaN(y) THEN NaN
    ELSE IF y[2] = 0 THEN <<0, 1>>
    ELSE IF y[1] < 0 THEN <<-y[2], -y[1]>>
    ELSE <<y[2], y[1]>>

RDiv(x, y) == RMul(x, RInv(y))

\* x < y; every comparison with NaN is false
RLt(x, y) ==
    IF IsNaN(x) \/ IsNaN(y) THEN FALSE
    ELSE IF x[2] = 0 /\ y[2] = 0 THEN x[1] < y[1]
    ELSE IF x[2] = 0 THEN x[1] < 0
    ELSE IF y[2] = 0 THEN y[1] > 0
    ELSE LET g == GCD(x[2], y[2])
         IN  x[1] * (y[2] \div g) < y[1] * (x[2] \div g)

RGt(x, y) == RLt(y, x)

RLe(x, y) == ~IsNaN(x) /\ ~IsNaN(y) /\ ~RLt(y, x)

RGe(x, y) == RLe(y, x)

\* Math.min: NaN if either argument is NaN
RMin(x, y) ==
    IF IsNaN(x) \/ IsNaN(y) THEN NaN
    ELSE IF RLt(y, x) THEN y ELSE x

\* Math.max
RMax(x, y) ==
    IF IsNaN(x) \/ IsNaN(y) THEN NaN
    ELSE IF RLt(x, y) THEN y ELSE x

\* x rounded to the nearest multiple of 1/s, halves away from zero
RoundTo(x, s) ==
    IF x[2] = 0 THEN x
    ELSE LET g  == GCD(s, x[2])
             sp == s \div g
             dp == x[2] \div g
             m  == Abs(x[1]) * sp
             q  == m \div dp
             r  == m % dp
             k  == IF 2 * r >= dp THEN q + 1 ELSE q
         IN  Norm(Sgn(x[1]) * k, s)

\* Number(x.toFixed(2))
ToFixed2(x) == RoundTo(x, 100)

----------------------------------------------------------------------------
(* TrendAnalyzer (trend-analyzer.ts) *)

\* A PricePoint is [timestamp, price, volume24h]; a history is a sequence of
\* them, oldest first (MarketDataService.getPriceHistory).

AnalyzerMinTrendStrength == 5

ReversalThreshold == 10

VolumeWeight == Frac(3, 10)

PriceWeight == Frac(7, 10)

NoTrend == [none |-> "trend"]

\* the sum that reduce builds from the left; the sums here are exact, so it is
\* computed by halves, which keeps the evaluation shallow
RECURSIVE SumPrices(_, _, _)
SumPrices(history, from, to) ==
    IF from > to THEN R(0)
    ELSE IF from = to THEN history[to].price
    ELSE LET mid == (from + to) \div 2
         IN  RAdd(SumPrices(history, from, mid), SumPrices(history, mid + 1, to))

\* a faulty average: a history shorter than the window is divided by the window
calculateSMAOverPeriod(history, period) ==
    IF Len(history) < period
    THEN RDiv(SumPrices(history, 1, Len(history)), R(period))
    ELSE ToFixed2(RDiv(SumPrices(history, Len(history) - period + 1, Len(history)),
                       R(period)))

\* lines 112-126
calculateSMA(history, period) ==
    IF Len(history) < period
    THEN RDiv(SumPrices(history, 1, Len(history)), R(Len(history)))
    ELSE ToFixed2(RDiv(SumPrices(history, Len(history) - period + 1, Len(history)),
                       R(period)))

\* a faulty direction: the price change alone decides
determineTrendDirectionByChange(priceChange, sma20, sma50) ==
    IF RGt(priceChange, R(AnalyzerMinTrendStrength)) THEN "BULLISH"
    ELSE IF RLt(priceChange, R(-AnalyzerMinTrendStrength)) THEN "BEARISH"
    ELSE "SIDEWAYS"

determineTrendDirection(priceChange, sma20, sma50) ==
    LET isBullish == RGt(priceChange, R(AnalyzerMinTrendStrength)) /\ RGt(sma20, sma50)
        isBearish == RLt(priceChange, R(-AnalyzerMinTrendStrength)) /\ RLt(sma20, sma50)
    IN  IF isBullish THEN "BULLISH"
        ELSE IF isBearish THEN "BEARISH"
        ELSE "SIDEWAYS"

detectReversal(history, currentTrend) ==
    IF Len(history) < 3 THEN FALSE
    ELSE LET n  == Len(history)
             p0 == history[n - 2].price
             p2 == history[n].price
             recentChange == RMul(RDiv(RSub(p2, p0), p0), R(100))
         IN  \/ currentTrend = "BULLISH" /\ RLt(recentChange, R(-ReversalThreshold))
             \/ currentTrend = "BEARISH" /\ RGt(recentChange, R(ReversalThreshold))

calculateConfidence(priceChange, volumeChange, strength, dataPoints) ==
    LET priceConfidence  == RMul(RMin(RDiv(RAbs(priceChange), R(20)), R(1)), R(100))
        volumeConfidence == RMul(RMin(RDiv(RAbs(volumeChange), R(20)), R(1)), R(100))
        dataConfidence   == RMul(RMin(Frac(dataPoints, 10), R(1)), R(100))
    IN  RAdd(RAdd(RAdd(RMul(priceConfidence, Frac(4, 10)),
                       RMul(volumeConfidence, Frac(2, 10))),
                  RMul(strength, Frac(3, 10))),
             RMul(dataConfidence, Frac(1, 10)))

analyzeTrend(history) ==
    IF Len(history) < 2 THEN NoTrend
    ELSE LET n             == Len(history)
             sma20         == calculateSMA(history, 20)
             sma50         == calculateSMA(history, 50)
             currentPrice  == history[n].price
             currentVolume == history[n].volume24h
             oldestPrice   == history[1].price
             oldestVolume  == history[1].volume24h
             priceChange   == RMul(RDiv(RSub(currentPrice, oldestPrice), oldestPrice), R(100))
             volumeChange  == RMul(RDiv(RSub(currentVolume, oldestVolume), oldestVolume), R(100))
             direction     == determineTrendDirection(priceChange, sma20, sma50)
             priceStrength  == RMin(RDiv(RAbs(priceChange), R(AnalyzerMinTrendStrength)), R(1))
             volumeStrength == RMin(RDiv(RAbs(volumeChange), R(AnalyzerMinTrendStrength)), R(1))
             strength      == RMul(RAdd(RMul(priceStrength, PriceWeight),
                                        RMul(volumeStrength, VolumeWeight)), R(100))
         IN  [direction    |-> direction,
              strength     |-> strength,
              duration     |-> history[n].timestamp - history[1].timestamp,
              priceChange  |-> ToFixed2(priceChange),
              volumeChange |-> ToFixed2(volumeChange),
              sma20        |-> sma20,
              sma50        |-> sma50,
              isReversal   |-> detectReversal(history, direction),
              confidence   |-> ToFixed2(calculateConfidence(priceChange, volumeChange,
                                                            strength, n))]

----------------------------------------------------------------------------
(* History snapshots the strategy can find in the store when it decides *)

UpdateIntervalMs == 60000

Rep(n, v) == [i \in 1..n |-> v]

MkHistory(prices, volumes) ==
    [i \in 1..Len(prices) |->
        [timestamp |-> i * UpdateIntervalMs, price |-> R(prices[i]), volume24h |-> R(volumes[i])]]

\* steady rise with rising volume: BULLISH, strength 100
HistBull == MkHistory(<<95>> \o Rep(20, 100), <<50000>> \o Rep(20, 60000))

\* the same rise on flat volume: BULLISH, confidence below 50
HistBullWeak == MkHistory(<<95>> \o Rep(20, 100), Rep(21, 60000))

\* a rise whose last three samples fall by more than 10%: BULLISH, reversal
HistBullReversal == MkHistory(<<50>> \o Rep(18, 120) \o <<100, 100>>, Rep(21, 60000))

\* a jump: BULLISH, but sma20 and sma50 more than 2% of the price apart
HistVolatile == MkHistory(<<50>> \o Rep(20, 100), Rep(21, 60000))

\* a fall: BEARISH
HistBear == MkHistory(<<110>> \o Rep(20, 100), Rep(21, 60000))

\* no movement: SIDEWAYS, strength 0
HistFlat == MkHistory(Rep(21, 100), Rep(21, 60000))

\* two samples: SIDEWAYS whatever the change
HistShort == MkHistory(<<100, 110>>, <<50000, 60000>>)

\* one sample (just tracked) and none (not tracked): no trend
HistOne == MkHistory(<<100>>, <<60000>>)

HistNone == << >>

SampleHistories ==
    {HistBull, HistBullWeak, HistBullReversal, HistVolatile, HistBear, HistFlat,
     HistShort, HistOne, HistNone}

\* what analyzeTrend returns on them
SampleTrends == {analyzeTrend(h) : h \in SampleHistories}

----------------------------------------------------------------------------
(* TradingStrategy (trading-strategy.ts): parameters *)

InitialCapital == 20

minConfidence == 50

minTrendStrength == 3

stopLossPercent == 1

takeProfitPercent == 2

maxPositions == 3

positionSize == Frac(3, 10)

minVolume == 50000

consecutiveLossLimit == 5

MinCapital == 5

MaxAttempts == 3

\* money amounts are kept to 1/Scale
Scale == 10 ^ 6

Money(x) == RoundTo(x, Scale)

NoPosition == [none |-> "position"]

NoSignal == [none |-> "signal"]

----------------------------------------------------------------------------
(* State *)

VARIABLES
    positions,          \* TradingStrategy.positions: token -> Position or NoPosition
    currentCapital,     \* TradingStrategy.currentCapital
    consecutiveLosses,  \* TradingStrategy.consecutiveLosses
    stats,              \* TradingStrategy.stats
    calls,              \* per caller: the analyzeTradeOpportunity call it has in flight
    market,             \* the price the feed currently quotes for each token
    entries,            \* executeEntry calls so far (bounds the run)
    marketData,         \* MarketDataService.marketData: token -> its MarketData object, or 0
    dataObjects,        \* the MarketData objects created so far, by number
    updateIntervals,    \* MarketDataService.updateIntervals: token -> its timer, or 0
    timerDue,           \* per timer: when it fires next, or -1 (none, or cleared)
    updating,           \* per MarketData object: the updatePrice calls in flight that hold it
    starting,           \* per token: the startTracking calls in flight
    now,                \* Date.now()
    storeOp,            \* the step of the MarketDataService taken last
    analysis,           \* the last analyzeTrend call: the history it read and what it returned
    lastRequestTime,    \* JupiterService.lastRequestTime
    fetches,            \* per caller: the rateLimitedFetch call it has in flight
    requests,           \* when each upstream request was issued, in order
    activePositions,    \* TradingAgent.activePositions: symbol -> TradePosition or NoPosition
    metrics,            \* TradingAgent.metrics
    pricePoints,        \* VisualizationService.priceHistory: per symbol, how many points it holds
    historicalData,     \* MLStrategy.historicalData: per symbol, how many points it holds
    streaming,          \* BinanceAPI.ws: the symbol whose trades the socket delivers, or ""
    priceUpdateCallbacks, \* MarketDataService.priceUpdateCallbacks: per symbol, how many
    lastTick,           \* the trade delivered last, and what the agent did with it
    alerts,             \* PriceAlertService.alerts, in the order of the Map
    alertLog            \* every alert created so far, with the calls of its callback

storeVars == <<marketData, dataObjects, updateIntervals, timerDue, updating, starting, now, storeOp>>

fetchVars == <<lastRequestTime, fetches, requests>>

agentVars == <<activePositions, metrics, pricePoints, historicalData, streaming,
               priceUpdateCallbacks, lastTick>>

alertVars == <<alerts, alertLog>>

vars == <<positions, currentCapital, consecutiveLosses, stats, calls, market, entries,
          marketData, dataObjects, updateIntervals, timerDue, updating, starting, now, storeOp,
          analysis, lastRequestTime, fetches, requests,
          activePositions, metrics, pricePoints, historicalData, streaming,
          priceUpdateCallbacks, lastTick, alerts, alertLog>>

strategyVars == <<positions, currentCapital, consecutiveLosses, stats>>

Tokens == {"SOL", "USDC", "BONK", "JUP"}

Callers == {1, 2}

OpenTokens == {t \in Tokens : positions[t] # NoPosition}

\* the symbols the TradingAgent is asked to trade
Symbols == {"BTCUSDT", "ETHUSDT", "SOLUSDT", "BNBUSDT"}

NoTick == [symbol |-> "", price |-> R(0), closed |-> FALSE]

\* MarketDataService.getInstance(true), as the tests construct it (lines 403-404)
updateInterval == 10000

historyLength == 10

\* line 396
maxErrors == 3

\* startTracking calls that get to create a MarketData object and a timer
MaxStarts == 2

\* calls of one kind in flight at a time
MaxInFlight == 2

\* the clock moves in steps of half an update interval, MaxClock times
ClockStep == updateInterval \div 2

MaxClock == 4

NoData == [none |-> "data"]

NoOp == [op |-> "none", token |-> ""]

NoAnalysis == [history |-> << >>, result |-> NoTrend, again |-> FALSE]

\* JupiterService, lines 43 and 66
minRequestInterval == 1000

retries == 3

\* the callers of rateLimitedFetch: the two lookups of a Promise.all
Fetchers == {1, 2}

IdleFetch == [pc |-> "idle", i |-> 0, wakeAt |-> 0, cause |-> "", wait |-> R(0)]

IdleCall ==
    [pc |-> "idle", token |-> "", trend |-> NoTrend, position |-> NoPosition,
     i |-> 0, volume24h |-> R(0), currentPrice |-> R(0), signal |-> NoSignal]

Init ==
    /\ positions = [t \in Tokens |-> NoPosition]
    /\ currentCapital = R(InitialCapital)
    /\ consecutiveLosses = 0
    /\ stats = [totalTrades |-> 0, winningTrades |-> 0, totalProfit |-> R(0),
                currentCapital |-> R(InitialCapital), maxDrawdown |-> R(0)]
    /\ calls = [c \in Callers |-> IdleCall]
    /\ market = [t \in Tokens |-> R(100)]
    /\ entries = 0
    /\ marketData = [t \in Tokens |-> 0]
    /\ dataObjects = [k \in 1..MaxStarts |-> NoData]
    /\ updateIntervals = [t \in Tokens |-> 0]
    /\ timerDue = [k \in 1..MaxStarts |-> -1]
    /\ updating = [k \in 1..MaxStarts |-> 0]
    /\ starting = [t \in Tokens |-> 0]
    /\ now = 0
    /\ storeOp = NoOp
    /\ analysis = NoAnalysis
    /\ lastRequestTime = -minRequestInterval   \* 0 in the code, where now is the time since 1970
    /\ fetches = [c \in Fetchers |-> IdleFetch]
    /\ requests = << >>
    /\ activePositions = [s \in Symbols |-> NoPosition]
    /\ metrics = [totalTrades |-> 0, successfulTrades |-> 0, totalProfit |-> R(0),
                  winRate |-> R(0), averageProfit |-> R(0)]
    /\ pricePoints = [s \in Symbols |-> 0]
    /\ historicalData = [s \in Symbols |-> 0]
    /\ streaming = ""
    /\ priceUpdateCallbacks = [s \in Symbols |-> 0]
    /\ lastTick = NoTick
    /\ alerts = << >>
    /\ alertLog = << >>

----------------------------------------------------------------------------
(* Feed lookups (JupiterService.getTokenPrice / getTokenVolume) *)

\* getTokenPrice resolves to the positive price the feed quotes, or rejects
Thrown == [ok |-> FALSE, value |-> R(0)]

Got(v) == [ok |-> TRUE, value |-> v]

PriceOutcomes(t) == {Got(market[t]), Thrown}

\* the feed moves the price of a token
Tick(t, p) ==
    /\ market[t] # R(p)
    /\ market' = [market EXCEPT ![t] = R(p)]
    /\ UNCHANGED <<strategyVars, calls, entries, storeVars, analysis, fetchVars, agentVars, alertVars>>

----------------------------------------------------------------------------
(* analyzeTradeOpportunity, checkEntryConditions, checkExitConditions *)

Await(c, pc, volume24h) ==
    calls' = [calls EXCEPT ![c].pc = pc, ![c].i = 0, ![c].volume24h = volume24h]

\* a faulty call: it refreshes the capital of the stats on its way
AccountRefreshed ==
    /\ stats' = [stats EXCEPT !.currentCapital = currentCapital]
    /\ UNCHANGED <<positions, currentCapital, consecutiveLosses>>

\* lines 69-275 assign to no field of the strategy
AccountUntouched == UNCHANGED strategyVars

\* a faulty throttle: twice the limit
ThrottleTrippedDouble(losses) == losses >= 2 * consecutiveLossLimit

\* a faulty throttle: one loss late
ThrottleTrippedLate(losses) == losses > consecutiveLossLimit

\* line 82
ThrottleTripped(losses) == losses >= consecutiveLossLimit

\* lines 101-110: the checks before the first feed lookup
EntryBlocked(open, capital) ==
    \/ Cardinality(open) >= maxPositions
    \/ RLt(capital, R(MinCapital))

\* lines 69-110 and 191-200: everything up to the first await
DecideStart(c, t, trend) ==
    /\ calls[c].pc = "idle"
    /\ AccountUntouched /\ UNCHANGED <<market, entries, storeVars, analysis, fetchVars, agentVars, alertVars>>
    /\ LET call == [IdleCall EXCEPT !.token = t, !.trend = trend, !.position = positions[t]]
           \* call.position: the position open for t when the call began
       IN  IF trend = NoTrend
           THEN calls' = [calls EXCEPT ![c] = [call EXCEPT !.pc = "returned"]]
           ELSE IF positions[t] # NoPosition
           THEN calls' = [calls EXCEPT ![c] = [call EXCEPT !.pc = "exitPrice"]]
           ELSE IF ThrottleTripped(consecutiveLosses) \/ EntryBlocked(OpenTokens, currentCapital)
           THEN calls' = [calls EXCEPT ![c] = [call EXCEPT !.pc = "returned"]]
           ELSE calls' = [calls EXCEPT ![c] = [call EXCEPT !.pc = "entryVolume"]]

\* a faulty entry check: the volume is not looked at
TrendQualifiesAnyVolume(volume24h, trend) ==
    /\ ~(RLt(trend.confidence, R(minConfidence)) \/ RLt(trend.strength, R(minTrendStrength)))
    /\ ~trend.isReversal
    /\ trend.direction = "BULLISH"

\* lines 127-144: the trend checks between the volume and the price lookup
TrendQualifies(volume24h, trend) ==
    /\ ~RLt(volume24h, R(minVolume))
    /\ ~(RLt(trend.confidence, R(minConfidence)) \/ RLt(trend.strength, R(minTrendStrength)))
    /\ ~trend.isReversal
    /\ trend.direction = "BULLISH"

\* lines 112-144: one turn of the volume retry loop, and what follows the loop
VolumeAttempt(c, out) ==
    /\ calls[c].pc = "entryVolume"
    /\ AccountUntouched /\ UNCHANGED <<market, entries, storeVars, analysis, fetchVars, agentVars, alertVars>>
    /\ IF RGt(out.value, R(0)) \/ calls[c].i = MaxAttempts - 1
       THEN IF TrendQualifies(out.value, calls[c].trend)
            THEN Await(c, "entryPrice", out.value)
            ELSE calls' = [calls EXCEPT ![c].pc = "returned", ![c].volume24h = out.value]
       ELSE calls' = [calls EXCEPT ![c].i = @ + 1, ![c].volume24h = out.value]

\* lines 168-173
TooVolatile(trend, currentPrice) ==
    RGt(RAbs(RSub(trend.sma20, trend.sma50)), RMul(currentPrice, Frac(2, 100)))

\* lines 163-181
EntrySignal(t, trend, currentPrice) ==
    IF currentPrice = R(0) THEN NoSignal
    ELSE IF TooVolatile(trend, currentPrice) THEN NoSignal
    ELSE [type |-> "ENTRY", tokenMint |-> t, price |-> currentPrice,
          confidence |-> trend.confidence]

\* the price retry loop (lines 146-161 and 197-211): the price it leaves after
\* this turn, and whether the loop is over
PriceAfter(call, out) == IF out.ok THEN out.value ELSE call.currentPrice

\* a faulty retry loop: one attempt more
LoopOverLate(call, out) ==
    \/ out.ok /\ RGt(out.value, R(0))
    \/ call.i = MaxAttempts

LoopOver(call, out) ==
    \/ out.ok /\ RGt(out.value, R(0))
    \/ call.i = MaxAttempts - 1

EntryPriceAttempt(c) ==
    /\ calls[c].pc = "entryPrice"
    /\ AccountUntouched /\ UNCHANGED <<market, entries, storeVars, analysis, fetchVars, agentVars, alertVars>>
    /\ \E out \in PriceOutcomes(calls[c].token) :
          LET price == PriceAfter(calls[c], out)
          IN  IF LoopOver(calls[c], out)
              THEN calls' = [calls EXCEPT ![c].pc = "returned", ![c].currentPrice = price,
                                 ![c].signal = EntrySignal(calls[c].token, calls[c].trend, price)]
              ELSE calls' = [calls EXCEPT ![c].i = @ + 1, ![c].currentPrice = price]

\* lines 221-223
PriceChange(position, currentPrice) ==
    RMul(RDiv(RSub(currentPrice, position.entryPrice), position.entryPrice), R(100))

\* lines 226-229
DynamicTakeProfit(trend) ==
    RMin(RMul(R(takeProfitPercent), RAdd(R(1), RDiv(trend.strength, R(100)))),
         RMul(R(takeProfitPercent), R(2)))

\* a faulty exit check: a reversal closes the position whatever the price change
ExitSignalOnReversal(position, trend, currentPrice) ==
    LET priceChange == PriceChange(position, currentPrice)
        exit(conf) == [type |-> "EXIT", tokenMint |-> position.tokenMint,
                       price |-> currentPrice, confidence |-> conf]
    IN  IF currentPrice = R(0) THEN NoSignal
        ELSE IF RLe(priceChange, R(-stopLossPercent)) THEN exit(R(100))
        ELSE IF RGe(priceChange, DynamicTakeProfit(trend)) THEN exit(R(100))
        ELSE IF trend.isReversal \/ trend.direction = "BEARISH"
        THEN exit(trend.confidence)
        ELSE NoSignal

\* lines 213-270
ExitSignal(position, trend, currentPrice) ==
    LET priceChange == PriceChange(position, currentPrice)
        exit(conf) == [type |-> "EXIT", tokenMint |-> position.tokenMint,
                       price |-> currentPrice, confidence |-> conf]
    IN  IF currentPrice = R(0) THEN NoSignal
        ELSE IF RLe(priceChange, R(-stopLossPercent)) THEN exit(R(100))
        ELSE IF RGe(priceChange, DynamicTakeProfit(trend)) THEN exit(R(100))
        ELSE IF (trend.isReversal \/ trend.direction = "BEARISH") /\ RGt(priceChange, R(0))
        THEN exit(trend.confidence)
        ELSE NoSignal

ExitPriceAttempt(c) ==
    /\ calls[c].pc = "exitPrice"
    /\ AccountUntouched /\ UNCHANGED <<market, entries, storeVars, analysis, fetchVars, agentVars, alertVars>>
    /\ \E out \in PriceOutcomes(calls[c].token) :
          LET price == PriceAfter(calls[c], out)
          IN  IF LoopOver(calls[c], out)
              THEN calls' = [calls EXCEPT ![c].pc = "returned", ![c].currentPrice = price,
                                 ![c].signal = ExitSignal(calls[c].position, calls[c].trend, price)]
              ELSE calls' = [calls EXCEPT ![c].i = @ + 1, ![c].currentPrice = price]

----------------------------------------------------------------------------
(* executeEntry, executeExit *)

\* a faulty sizing: the reduction is not capped at one half
PositionAmountUncapped(capital, losses) ==
    Money(RMul(RMul(capital, positionSize), RSub(R(1), RMul(R(losses), Frac(1, 10)))))

\* a faulty sizing: the share of the capital is left out
PositionAmountAll(capital, losses) ==
    Money(RMul(capital, RSub(R(1), RMin(RMul(R(losses), Frac(1, 10)), Frac(5, 10)))))

\* lines 280-283
PositionAmount(capital, losses) ==
    Money(RMul(RMul(capital, positionSize),
               RSub(R(1), RMin(RMul(R(losses), Frac(1, 10)), Frac(5, 10)))))

\* lines 286-294 (the timestamp, which nothing reads, is left out)
NewPosition(signal, positionAmount) ==
    [tokenMint      |-> signal.tokenMint,
     entryPrice     |-> signal.price,
     amount         |-> Money(RDiv(positionAmount, signal.price)),
     stopLoss       |-> RMul(signal.price, RSub(R(1), Frac(stopLossPercent, 100))),
     takeProfit     |-> RMul(signal.price, RAdd(R(1), Frac(takeProfitPercent, 100))),
     initialCapital |-> positionAmount]

\* lines 277-315
executeEntry(signal) ==
    LET positionAmount == PositionAmount(currentCapital, consecutiveLosses)
    IN  /\ positions' = [positions EXCEPT ![signal.tokenMint] = NewPosition(signal, positionAmount)]
        /\ currentCapital' = RSub(currentCapital, positionAmount)
        /\ entries' = entries + 1
        /\ UNCHANGED <<consecutiveLosses, stats>>

\* lines 322-323
Profit(position, price) ==
    Money(RMul(RSub(price, position.entryPrice), position.amount))

\* a faulty settlement: the committed capital is not given back
CapitalAfterExitProfitOnly(capital, position, profit) ==
    RAdd(capital, profit)

\* line 329
CapitalAfterExit(capital, position, profit) ==
    RAdd(capital, RAdd(position.initialCapital, profit))

\* a faulty count: a loss counts twice
LossesAfterExitTwice(losses, profit) ==
    IF RGt(profit, R(0)) THEN 0 ELSE losses + 2

\* a faulty count: a break-even exit taken for a win
LossesAfterExitBreakEvenWins(losses, profit) ==
    IF RGe(profit, R(0)) THEN 0 ELSE losses + 1

\* lines 331-336
LossesAfterExit(losses, profit) ==
    IF RGt(profit, R(0)) THEN 0 ELSE losses + 1

\* lines 339-344
Drawdown(capital) ==
    RMul(RDiv(RSub(capital, R(InitialCapital)), R(InitialCapital)), R(100))

\* a faulty ledger: the drawdown kept is the highest, not the lowest
StatsAfterExitPeak(st, profit, capital) ==
    [totalTrades    |-> st.totalTrades + 1,
     winningTrades  |-> IF RGt(profit, R(0)) THEN st.winningTrades + 1 ELSE st.winningTrades,
     totalProfit    |-> RAdd(st.totalProfit, profit),
     currentCapital |-> capital,
     maxDrawdown    |-> RMax(st.maxDrawdown, Drawdown(capital))]

\* lines 330-344
StatsAfterExit(st, profit, capital) ==
    [totalTrades    |-> st.totalTrades + 1,
     winningTrades  |-> IF RGt(profit, R(0)) THEN st.winningTrades + 1 ELSE st.winningTrades,
     totalProfit    |-> RAdd(st.totalProfit, profit),
     currentCapital |-> capital,
     maxDrawdown    |-> RMin(st.maxDrawdown, Drawdown(capital))]

\* lines 317-364; without a position it returns false and changes nothing
executeExit(signal) ==
    LET position == positions[signal.tokenMint]
        profit   == Profit(position, signal.price)
        capital  == CapitalAfterExit(currentCapital, position, profit)
    IN  IF position = NoPosition
        THEN UNCHANGED <<strategyVars, entries>>
        ELSE /\ currentCapital' = capital
             /\ consecutiveLosses' = LossesAfterExit(consecutiveLosses, profit)
             /\ stats' = StatsAfterExit(stats, profit, capital)
             /\ positions' = [positions EXCEPT ![signal.tokenMint] = NoPosition]
             /\ UNCHANGED entries

\* lines 370-372: a copy of the stats
getStats == stats

----------------------------------------------------------------------------
(* The callers: each runs the loop of test-trading-strategy.ts, lines 83-95 *)

CallerEntry(c, max) ==
    /\ calls[c].pc = "returned"
    /\ calls[c].signal # NoSignal
    /\ calls[c].signal.type = "ENTRY"
    /\ entries < max
    /\ executeEntry(calls[c].signal)
    /\ calls' = [calls EXCEPT ![c] = IdleCall]
    /\ UNCHANGED <<market, storeVars, analysis, fetchVars, agentVars, alertVars>>

CallerExit(c) ==
    /\ calls[c].pc = "returned"
    /\ calls[c].signal # NoSignal
    /\ calls[c].signal.type = "EXIT"
    /\ executeExit(calls[c].signal)
    /\ calls' = [calls EXCEPT ![c] = IdleCall]
    /\ UNCHANGED <<market, storeVars, analysis, fetchVars, agentVars, alertVars>>

CallerSkip(c) ==
    /\ calls[c].pc = "returned"
    /\ calls[c].signal = NoSignal
    /\ calls' = [calls EXCEPT ![c] = IdleCall]
    /\ UNCHANGED <<strategyVars, market, entries, storeVars, analysis, fetchVars, agentVars, alertVars>>

----------------------------------------------------------------------------
(* Specifications *)

\* callers C deciding on tokens T, with the store holding histories whose trends
\* are TR and the feed quoting volumes V
Deciding(C, T, TR, V) ==
    \/ \E c \in C, t \in T, trend \in TR : DecideStart(c, t, trend)
    \/ \E c \in C, v \in V : VolumeAttempt(c, Got(R(v)))   \* getTokenVolume never rejects
    \/ \E c \in C : EntryPriceAttempt(c)
    \/ \E c \in C : ExitPriceAttempt(c)
    \/ \E c \in C : CallerSkip(c)

\* the same with the callers executing the signals, up to max entries, while the
\* feed moves between the prices P
Run(C, T, TR, P, V, max) ==
    \/ Deciding(C, T, TR, V)
    \/ \E c \in C : CallerEntry(c, max)
    \/ \E c \in C : CallerExit(c)
    \/ \E t \in T, p \in P : Tick(t, p)

\* one caller, as in the test: every trend, every feed answer
MaxEntries == 2

SpecTokens == {"SOL"}

SpecPrices == {99, 100, 102, 104}

SpecVolumes == {0, 40000, 60000}

Next == Run({1}, SpecTokens, SampleTrends, SpecPrices, SpecVolumes, MaxEntries)

Spec == Init /\ [][Next]_vars

\* two callers whose calls interleave at the awaits, on a rising market
RaceEntries == 4

NextRace ==
    \/ Deciding(Callers, Tokens, {analyzeTrend(HistBull)}, {60000})
    \/ \E c \in Callers : CallerEntry(c, RaceEntries)

SpecRace == Init /\ [][NextRace]_vars

\* one caller through a long run of trades
LoopEntries == 6

LoopPrices == {99, 100}

NextLoop == Run({1}, SpecTokens, SampleTrends, LoopPrices, SpecVolumes, LoopEntries)

SpecLoop == Init /\ [][NextLoop]_vars

\* one caller running the loop over three tokens on a rising trend, each signal
\* executed before the next decision; the prices move between two decisions,
\* and of the tokens without a position the first of the list is decided on,
\* while the feed quotes 100
BookEntries == 7

BookOrder == <<"SOL", "USDC", "BONK">>

BookTokens == {BookOrder[n] : n \in 1..Len(BookOrder)}

BookPrices == {99, 100}

\* the feed moves the prices of the tokens T together
TickAll(T, p) ==
    /\ \E t \in T : market[t] # R(p)
    /\ market' = [t \in Tokens |-> IF t \in T THEN R(p) ELSE market[t]]
    /\ UNCHANGED <<strategyVars, calls, entries, storeVars, analysis, fetchVars, agentVars, alertVars>>

NextBook ==
    \/ \E n \in 1..Len(BookOrder) :
          /\ \/ positions[BookOrder[n]] # NoPosition
             \/ /\ market[BookOrder[n]] = R(100)
                /\ \A m \in 1..(n - 1) : positions[BookOrder[m]] # NoPosition
          /\ DecideStart(1, BookOrder[n], analyzeTrend(HistBull))
    \/ VolumeAttempt(1, Got(R(60000)))
    \/ EntryPriceAttempt(1)
    \/ ExitPriceAttempt(1)
    \/ CallerSkip(1)
    \/ CallerEntry(1, BookEntries)
    \/ CallerExit(1)
    \/ \E p \in BookPrices : calls[1].pc = "idle" /\ TickAll(BookTokens, p)

SpecBook == Init /\ [][NextBook]_vars

\* one caller and one position, on the sample trends and on the trend of a
\* token whose volume the feed could not tell (0 throughout)
ExitEntries == 1

HistMute == MkHistory(Rep(21, 100), Rep(21, 0))

ExitTrends == SampleTrends \cup {analyzeTrend(HistMute)}

ExitPrices == {100, 101, 104}

NextExit == Run({1}, SpecTokens, ExitTrends, ExitPrices, {60000}, ExitEntries)

SpecExit == Init /\ [][NextExit]_vars

\* executeEntry and executeExit called with signals of the caller's own making
Propose(c, signal) ==
    /\ calls[c].pc = "idle"
    /\ calls' = [calls EXCEPT ![c] = [IdleCall EXCEPT !.pc = "returned", !.signal = signal]]
    /\ UNCHANGED <<strategyVars, market, entries, storeVars, analysis, fetchVars, agentVars, alertVars>>

Signals(T, P) ==
    [type : {"ENTRY", "EXIT"}, tokenMint : T, price : {R(p) : p \in P}, confidence : {R(100)}]

Direct(C, T, P, max) ==
    \/ \E c \in C, signal \in Signals(T, P) : Propose(c, signal)
    \/ \E c \in C : CallerEntry(c, max)
    \/ \E c \in C : CallerExit(c)

ApiEntries == 7

ApiPrices == {100, 104}

NextApi == Direct({1}, SpecTokens, ApiPrices, ApiEntries)

SpecApi == Init /\ [][NextApi]_vars

\* the same, with signals at any price, negative ones included
AnyEntries == 3

AnyPrices == {100, -300}

NextAny == Direct({1}, SpecTokens, AnyPrices, AnyEntries)

SpecAny == Init /\ [][NextAny]_vars

\* the same, with positions entered at one price and given up at that price
\* or at a hundredth of it
CrashEntries == 5

CrashSignals ==
    {[type |-> "ENTRY", tokenMint |-> "SOL", price |-> R(100), confidence |-> R(100)]}
    \cup [type : {"EXIT"}, tokenMint : {"SOL"}, price : {R(100), R(1)}, confidence : {R(100)}]

NextCrash ==
    \/ \E signal \in CrashSignals : Propose(1, signal)
    \/ CallerEntry(1, CrashEntries)
    \/ CallerExit(1)

SpecCrash == Init /\ [][NextCrash]_vars

----------------------------------------------------------------------------
(* MarketDataService *)

StoreOp(op, t) == storeOp' = [op |-> op, token |-> t]

\* the objects not yet created
FreeObjects == {k \in 1..MaxStarts : dataObjects[k] = NoData}

RECURSIVE StartsInFlight(_)

StartsInFlight(T) ==
    IF T = {} THEN 0
    ELSE LET t == CHOOSE x \in T : TRUE IN starting[t] + StartsInFlight(T \ {t})

\* a faulty startTracking: it does not look whether the token is tracked
startTrackingAgain(t, starts) ==
    /\ StoreOp("startTracking", t)
    /\ starting[t] < MaxInFlight
    /\ StartsInFlight(Tokens) + MaxStarts - Cardinality(FreeObjects) < starts
    /\ starting' = [starting EXCEPT ![t] = @ + 1]
    /\ UNCHANGED <<marketData, dataObjects, updateIntervals, timerDue, updating, now>>
    /\ UNCHANGED <<strategyVars, calls, market, entries, analysis, fetchVars, agentVars, alertVars>>

\* lines 424-442: startTracking up to its await; the run has room for so many
\* calls that get past it
startTracking(t, starts) ==
    /\ StoreOp("startTracking", t)
    /\ IF marketData[t] # 0
       THEN UNCHANGED starting
       ELSE /\ starting[t] < MaxInFlight
            /\ StartsInFlight(Tokens) + MaxStarts - Cardinality(FreeObjects) < starts
            /\ starting' = [starting EXCEPT ![t] = @ + 1]
    /\ UNCHANGED <<marketData, dataObjects, updateIntervals, timerDue, updating, now>>
    /\ UNCHANGED <<strategyVars, calls, market, entries, analysis, fetchVars, agentVars, alertVars>>

\* lines 457-470
NewData(t, price, volume24h) ==
    [symbol           |-> t,
     currentPrice     |-> price,
     currentVolume24h |-> volume24h,
     priceHistory     |-> <<[timestamp |-> now, price |-> price, volume24h |-> volume24h]>>,
     lastUpdated      |-> now,
     updateCount      |-> 1,
     errors           |-> 0,
     volumeChange24h  |-> R(0)]

\* lines 443-451 and 509-515: what the lookups answered is refused when it is
\* null or NaN, and only then
Refused(price, volume) == ~price.ok \/ IsNaN(price.value) \/ IsNaN(volume.value)

\* lines 438-486: startTracking after its await; a rejected price lookup is thrown on
startTrackingDone(t, price, volume) ==
    /\ starting[t] > 0
    /\ starting' = [starting EXCEPT ![t] = @ - 1]
    /\ IF Refused(price, volume)
       THEN /\ StoreOp("startTrackingFailed", t)
            /\ UNCHANGED <<marketData, dataObjects, updateIntervals, timerDue>>
       ELSE \E k \in FreeObjects :
               /\ \A j \in FreeObjects : k <= j
               /\ StoreOp("startTrackingDone", t)
               /\ dataObjects' = [dataObjects EXCEPT ![k] = NewData(t, price.value, volume.value)]
               /\ marketData' = [marketData EXCEPT ![t] = k]
               /\ timerDue' = [timerDue EXCEPT ![k] = now + updateInterval]
               /\ updateIntervals' = [updateIntervals EXCEPT ![t] = k]
    /\ UNCHANGED <<updating, now>>
    /\ UNCHANGED <<strategyVars, calls, market, entries, analysis, fetchVars, agentVars, alertVars>>

\* lines 489-497
stopTracking(t) ==
    /\ StoreOp("stopTracking", t)
    /\ IF updateIntervals[t] # 0
       THEN /\ timerDue' = [timerDue EXCEPT ![updateIntervals[t]] = -1]
            /\ updateIntervals' = [updateIntervals EXCEPT ![t] = 0]
            /\ marketData' = [marketData EXCEPT ![t] = 0]
       ELSE UNCHANGED <<timerDue, updateIntervals, marketData>>
    /\ UNCHANGED <<dataObjects, updating, starting, now>>
    /\ UNCHANGED <<strategyVars, calls, market, entries, analysis, fetchVars, agentVars, alertVars>>

\* a faulty timer: setTimeout for setInterval, it fires once
TimerFiresOnce(k) ==
    /\ timerDue[k] >= 0
    /\ timerDue[k] <= now
    /\ timerDue' = [timerDue EXCEPT ![k] = -1]
    /\ LET t == dataObjects[k].symbol
       IN  /\ StoreOp("timer", t)
           /\ IF marketData[t] = 0
              THEN UNCHANGED updating
              ELSE /\ updating[marketData[t]] < MaxInFlight
                   /\ updating' = [updating EXCEPT ![marketData[t]] = @ + 1]
    /\ UNCHANGED <<marketData, dataObjects, updateIntervals, starting, now>>
    /\ UNCHANGED <<strategyVars, calls, market, entries, analysis, fetchVars, agentVars, alertVars>>

\* lines 473-475 and 499-504: a timer fires and updatePrice runs up to its await
TimerFires(k) ==
    /\ timerDue[k] >= 0
    /\ timerDue[k] <= now
    /\ timerDue' = [timerDue EXCEPT ![k] = now + updateInterval]
    /\ LET t == dataObjects[k].symbol
       IN  /\ StoreOp("timer", t)
           /\ IF marketData[t] = 0
              THEN UNCHANGED updating
              ELSE /\ updating[marketData[t]] < MaxInFlight
                   /\ updating' = [updating EXCEPT ![marketData[t]] = @ + 1]
    /\ UNCHANGED <<marketData, dataObjects, updateIntervals, starting, now>>
    /\ UNCHANGED <<strategyVars, calls, market, entries, analysis, fetchVars, agentVars, alertVars>>

\* a faulty debounce: it measures from the start of time, so nothing is late enough
TooSoonEver(data) == 10 * (data.lastUpdated - now) < 9 * updateInterval

\* a faulty debounce: 0.09 for 0.9
TooSoonLax(data) == 100 * (now - data.lastUpdated) < 9 * updateInterval

\* lines 520-521
TooSoon(data) == 10 * (now - data.lastUpdated) < 9 * updateInterval

\* a faulty push: the new sample goes to the front
PushedFirst(history, point) ==
    LET h == <<point>> \o history
    IN  IF Len(h) > historyLength THEN SubSeq(h, 1, historyLength) ELSE h

\* a faulty trim: the newest samples go, not the oldest
PushedKeepOldest(history, point) ==
    LET h == Append(history, point)
    IN  IF Len(h) > historyLength THEN SubSeq(h, 1, historyLength) ELSE h

\* lines 531-543
Pushed(history, point) ==
    LET h == Append(history, point)
    IN  IF Len(h) > historyLength THEN SubSeq(h, Len(h) - historyLength + 1, Len(h)) ELSE h

\* a faulty update: the error count survives it
UpdatedKeepErrors(data, price, volume24h) ==
    [data EXCEPT
        !.priceHistory     = Pushed(@, [timestamp |-> now, price |-> price, volume24h |-> volume24h]),
        !.currentPrice     = price,
        !.currentVolume24h = volume24h,
        !.volumeChange24h  = ToFixed2(RMul(RDiv(RSub(volume24h, data.currentVolume24h),
                                                data.currentVolume24h), R(100))),
        !.lastUpdated      = now,
        !.updateCount      = @ + 1]

\* lines 526-551
Updated(data, price, volume24h) ==
    [data EXCEPT
        !.priceHistory     = Pushed(@, [timestamp |-> now, price |-> price, volume24h |-> volume24h]),
        !.currentPrice     = price,
        !.currentVolume24h = volume24h,
        !.volumeChange24h  = ToFixed2(RMul(RDiv(RSub(volume24h, data.currentVolume24h),
                                                data.currentVolume24h), R(100))),
        !.lastUpdated      = now,
        !.updateCount      = @ + 1,
        !.errors           = 0]

\* lines 503-573: updatePrice after its await, on the object d it read before it
updatePriceDone(d, price, volume) ==
    /\ updating[d] > 0
    /\ updating' = [updating EXCEPT ![d] = @ - 1]
    /\ IF Refused(price, volume)
       THEN /\ StoreOp("updatePriceFailed", dataObjects[d].symbol)
            /\ dataObjects' = [dataObjects EXCEPT ![d].errors = @ + 1]
            /\ UNCHANGED marketData
       ELSE IF TooSoon(dataObjects[d])
       THEN /\ StoreOp("updatePrice", dataObjects[d].symbol)
            /\ UNCHANGED <<dataObjects, marketData>>
       ELSE /\ StoreOp("updatePrice", dataObjects[d].symbol)
            /\ dataObjects' = [dataObjects EXCEPT ![d] = Updated(@, price.value, volume.value)]
            /\ marketData' = [marketData EXCEPT ![dataObjects[d].symbol] = d]
    /\ UNCHANGED <<updateIntervals, timerDue, starting, now>>
    /\ UNCHANGED <<strategyVars, calls, market, entries, analysis, fetchVars, agentVars, alertVars>>

\* time passes, in steps of the given length and up to max of them; a timer
\* that is due fires before it does
Advance(step, max) ==
    /\ now < max * step
    /\ \A k \in 1..MaxStarts : timerDue[k] < 0 \/ timerDue[k] > now
    /\ now' = now + step
    /\ StoreOp("clock", "")
    /\ UNCHANGED <<marketData, dataObjects, updateIntervals, timerDue, updating, starting>>
    /\ UNCHANGED <<strategyVars, calls, market, entries, analysis, fetchVars, agentVars, alertVars>>

\* lines 576-610: what the accessors answer
Null == << >>

Tracked(t) == marketData[t] # 0

getCurrentPrice(t) == IF Tracked(t) THEN dataObjects[marketData[t]].currentPrice ELSE Null

getCurrentVolume(t) == IF Tracked(t) THEN dataObjects[marketData[t]].currentVolume24h ELSE Null

getPriceHistory(t) == IF Tracked(t) THEN dataObjects[marketData[t]].priceHistory ELSE << >>

\* the feed's answers to the two lookups of startTracking and updatePrice
FeedPrices(P) == {Got(R(p)) : p \in P} \cup {Thrown}

FeedVolumes(V) == {Got(R(v)) : v \in V}

\* the service tracking tokens T while the lookups answer one of PO and one of VO
Ingesting(T, PO, VO, max) ==
    \/ \E t \in T : startTracking(t, MaxStarts)
    \/ \E t \in T, price \in PO, volume \in VO : startTrackingDone(t, price, volume)
    \/ \E t \in T : stopTracking(t)
    \/ \E k \in 1..MaxStarts : TimerFires(k)
    \/ \E d \in 1..MaxStarts, price \in PO, volume \in VO : updatePriceDone(d, price, volume)
    \/ Advance(ClockStep, max)

\* the same while the feed answers prices P and volumes V
Tracking(T, P, V, max) == Ingesting(T, FeedPrices(P), FeedVolumes(V), max)

StorePrices == {100}

StoreVolumes == {60000}

NextStore == Tracking(SpecTokens, StorePrices, StoreVolumes, MaxClock)

SpecStore == Init /\ [][NextStore]_vars

\* one token tracked for long enough to fill its history, and never stopped
HistoryClock == 11

NextHistory ==
    \/ startTracking("SOL", 1)
    \/ startTrackingDone("SOL", Got(R(100)), Got(R(60000)))
    \/ \E k \in 1..MaxStarts : TimerFires(k)
    \/ \E d \in 1..MaxStarts, price \in FeedPrices(StorePrices) :
          updatePriceDone(d, price, Got(R(60000)))
    \/ Advance(updateInterval, HistoryClock)

SpecHistory == Init /\ [][NextHistory]_vars

\* one token tracked while every lookup succeeds; the event loop runs the timers
\* that are due and the continuations of the lookups that have answered, and
\* time passes
LiveClock == 8

NextLive ==
    \/ startTracking("SOL", 1)
    \/ startTrackingDone("SOL", Got(R(100)), Got(R(60000)))
    \/ \E k \in 1..MaxStarts : TimerFires(k)
    \/ \E d \in 1..MaxStarts : updatePriceDone(d, Got(R(100)), Got(R(60000)))
    \/ Advance(ClockStep, LiveClock)

\* the least the event loop does: while a timer is due, a lookup has answered
\* or time can pass, one of them happens
LiveFair ==
    WF_vars(\/ \E k \in 1..MaxStarts : TimerFires(k)
            \/ \E d \in 1..MaxStarts : updatePriceDone(d, Got(R(100)), Got(R(60000)))
            \/ Advance(ClockStep, LiveClock))

SpecLive == Init /\ [][NextLive]_vars /\ LiveFair

\* a faulty analyzer: the duration of the trend runs up to the time of the call
analyzeTrendAged(t, history) ==
    /\ StoreOp("analyzeTrend", t)
    /\ analysis' = [history |-> history,
                    result  |-> IF analyzeTrend(history) = NoTrend THEN NoTrend
                                ELSE [analyzeTrend(history) EXCEPT
                                         !.duration = now - history[1].timestamp],
                    again   |-> analysis.history = history]
    /\ UNCHANGED <<marketData, dataObjects, updateIntervals, timerDue, updating, starting, now>>
    /\ UNCHANGED <<strategyVars, calls, market, entries, fetchVars, agentVars, alertVars>>

\* TrendAnalyzer.analyzeTrend(t), lines 40-110, on the history that line 42 reads;
\* analysis.again tells whether the call before it read the same history
analyzeTrendOf(t, history) ==
    /\ StoreOp("analyzeTrend", t)
    /\ analysis' = [history |-> history,
                    result  |-> analyzeTrend(history),
                    again   |-> analysis.history = history]
    /\ UNCHANGED <<marketData, dataObjects, updateIntervals, timerDue, updating, starting, now>>
    /\ UNCHANGED <<strategyVars, calls, market, entries, fetchVars, agentVars, alertVars>>

\* the analyzer asked about the tokens of a store whose lookups answer prices
\* that move and volumes that getTokenVolume could not estimate (0)
TrendPrices == {Got(R(100)), Got(R(110))}

TrendVolumes == {Got(R(60000)), Got(R(0))}

TrendClock == 3

NextTrend ==
    \/ startTracking("SOL", 1)
    \/ \E price \in TrendPrices, volume \in TrendVolumes : startTrackingDone("SOL", price, volume)
    \/ \E k \in 1..MaxStarts : TimerFires(k)
    \/ \E d \in 1..MaxStarts, price \in TrendPrices, volume \in TrendVolumes :
          updatePriceDone(d, price, volume)
    \/ Advance(updateInterval, TrendClock)
    \/ \E t \in SpecTokens : analyzeTrendOf(t, getPriceHistory(t))

SpecTrend == Init /\ [][NextTrend]_vars

\* the strategy deciding on what the store of the tests (historyLength 10) holds
\* of a token whose price has risen from 100 to 110 and its volume from 50000
\* to 60000; the analysis is the one of line 71 on the history of
\* that moment. Of the steps of a decision, those up to the trend checks; a
\* decision takes less than the 10 s between two updates
TestClock == 11

TestPrices == {Got(R(110))}

NextTestMode ==
    \/ startTracking("SOL", 1)
    \/ startTrackingDone("SOL", Got(R(100)), Got(R(50000)))
    \/ \E k \in 1..MaxStarts : TimerFires(k)
    \/ \E d \in 1..MaxStarts, price \in TestPrices : updatePriceDone(d, price, Got(R(60000)))
    \/ calls[1].pc = "idle" /\ Advance(updateInterval, TestClock)
    \/ DecideStart(1, "SOL", analyzeTrend(getPriceHistory("SOL")))
    \/ VolumeAttempt(1, Got(R(60000)))
    \/ CallerSkip(1)

SpecTestMode == Init /\ [][NextTestMode]_vars

\* the analyzer on its own, asked about histories of the lengths around its two
\* windows: a first price, a run of a second one and a last price, at a steady
\* volume; the history of the scenario 100, 103, 106, 110 is among them
MkSnapshot(prices) ==
    [i \in 1..Len(prices) |->
        [timestamp |-> i * UpdateIntervalMs, price |-> prices[i], volume24h |-> R(60000)]]

AnalyzerPrices == {R(100), R(110), Frac(10001, 100)}

AnalyzerRuns == {0, 1, 18, 19, 48, 49}

HistScenario == MkSnapshot(<<R(100), R(103), R(106), R(110)>>)

AnalyzerHistories ==
    {MkSnapshot(<<a>> \o Rep(n, b) \o <<c>>) :
        a \in AnalyzerPrices, b \in AnalyzerPrices, c \in AnalyzerPrices, n \in AnalyzerRuns}
    \cup {HistScenario}

NextAnalyzer == \E h \in AnalyzerHistories : analyzeTrendOf("SOL", h)

SpecAnalyzer == Init /\ [][NextAnalyzer]_vars

\* a feed that also answers what the JSON of the price endpoint can carry: a
\* negative number, a number beyond the doubles (1e999 parses to Infinity) and
\* something that is not a number; getTokenVolume answers 0 when it fails
Infinity == <<1, 0>>

SamplePrices == {Got(R(100)), Got(R(-5)), Got(Infinity), Got(NaN), Thrown}

SampleVolumes == {Got(R(60000)), Got(R(0)), Got(R(-5000))}

SamplesClock == 2

NextSamples == Ingesting(SpecTokens, SamplePrices, SampleVolumes, SamplesClock)

SpecSamples == Init /\ [][NextSamples]_vars

----------------------------------------------------------------------------
(* JupiterService.rateLimitedFetch *)

\* what the upstream answers to one request: a response that is returned, a
\* 429 with its retry-after header (absent: "2"; "30"; a date, which parseInt
\* reads as NaN), or no response at all (fetch rejects)
RetryAfters == {R(2), R(30), NaN}

Responses ==
    {[status |-> 200, retryAfter |-> R(0)], [status |-> 0, retryAfter |-> R(0)]}
    \cup {[status |-> 429, retryAfter |-> ra] : ra \in RetryAfters}

\* sleep(ms) is over at now + ms at the earliest; setTimeout takes NaN for 0
WakeAt(ms) == IF IsFinite(ms) /\ ms[1] > 0 THEN now + (ms[1] \div ms[2]) ELSE now

\* lines 78-79
Issued(c, i) ==
    /\ lastRequestTime' = now
    /\ requests' = Append(requests, now)
    /\ fetches' = [fetches EXCEPT ![c] = [IdleFetch EXCEPT !.pc = "fetching", !.i = i]]

\* lines 68-79: the top of the loop, up to its first await
Attempt(c, i) ==
    LET timeSinceLastRequest == now - lastRequestTime
    IN  IF timeSinceLastRequest < minRequestInterval
        THEN /\ fetches' = [fetches EXCEPT ![c] =
                               [IdleFetch EXCEPT
                                   !.pc = "gate", !.i = i,
                                   !.wakeAt = WakeAt(R(minRequestInterval - timeSinceLastRequest))]]
             /\ UNCHANGED <<lastRequestTime, requests>>
        ELSE Issued(c, i)

\* lines 64-79: a caller enters rateLimitedFetch; the run has room for so many
\* calls
rateLimitedFetch(c, max) ==
    /\ fetches[c].pc = "idle"
    /\ Len(requests) < max
    /\ Attempt(c, 0)
    /\ UNCHANGED <<strategyVars, calls, market, entries, storeVars, analysis, agentVars, alertVars>>

\* lines 73-79: the sleep before the request is over
GateOpens(c) ==
    /\ fetches[c].pc = "gate"
    /\ now >= fetches[c].wakeAt
    /\ Issued(c, fetches[c].i)
    /\ UNCHANGED <<strategyVars, calls, market, entries, storeVars, analysis, agentVars, alertVars>>

\* lines 82-85
RateLimitBackoff(retryAfter) == RMax(RMul(retryAfter, R(1000)), R(2000))

\* line 96
ErrorBackoff(i) == RMin(R(1000 * 2 ^ i), R(10000))

\* lines 79-98: the request is answered
Responds(c, response) ==
    /\ fetches[c].pc = "fetching"
    /\ LET f == fetches[c]
       IN  IF response.status = 429
           THEN fetches' = [fetches EXCEPT ![c] =
                              [f EXCEPT !.pc = "backoff", !.cause = "429",
                                        !.wait = RateLimitBackoff(response.retryAfter),
                                        !.wakeAt = WakeAt(RateLimitBackoff(response.retryAfter))]]
           ELSE IF response.status # 0
           THEN fetches' = [fetches EXCEPT ![c] = [f EXCEPT !.pc = "returned"]]
           ELSE IF f.i = retries - 1
           THEN fetches' = [fetches EXCEPT ![c] = [f EXCEPT !.pc = "thrown", !.cause = "error"]]
           ELSE fetches' = [fetches EXCEPT ![c] =
                              [f EXCEPT !.pc = "backoff", !.cause = "error",
                                        !.wait = ErrorBackoff(f.i),
                                        !.wakeAt = WakeAt(ErrorBackoff(f.i))]]
    /\ UNCHANGED <<lastRequestTime, requests>>
    /\ UNCHANGED <<strategyVars, calls, market, entries, storeVars, analysis, agentVars, alertVars>>

\* lines 68, 89-90 and 98-101: the sleep after a failed attempt is over; the
\* loop goes round, or ends with "Failed after 3 retries"
BackoffOver(c) ==
    /\ fetches[c].pc = "backoff"
    /\ now >= fetches[c].wakeAt
    /\ IF fetches[c].i + 1 < retries
       THEN Attempt(c, fetches[c].i + 1)
       ELSE /\ fetches' = [fetches EXCEPT ![c] = [@ EXCEPT !.pc = "thrown"]]
            /\ UNCHANGED <<lastRequestTime, requests>>
    /\ UNCHANGED <<strategyVars, calls, market, entries, storeVars, analysis, agentVars, alertVars>>

\* the caller has its response, or its error
Settled(c) ==
    /\ fetches[c].pc \in {"returned", "thrown"}
    /\ fetches' = [fetches EXCEPT ![c] = IdleFetch]
    /\ UNCHANGED <<lastRequestTime, requests>>
    /\ UNCHANGED <<strategyVars, calls, market, entries, storeVars, analysis, agentVars, alertVars>>

\* the two lookups of a Promise.all, and whoever calls next, going through the
\* wrapper while the clock moves in half request intervals
MaxRequests == 3

FetchClock == 6

NextFetch ==
    \/ \E c \in Fetchers : rateLimitedFetch(c, MaxRequests)
    \/ \E c \in Fetchers : GateOpens(c)
    \/ \E c \in Fetchers, response \in Responses : Responds(c, response)
    \/ \E c \in Fetchers : BackoffOver(c)
    \/ \E c \in Fetchers : Settled(c)
    \/ Advance(minRequestInterval \div 2, FetchClock)

SpecFetch == Init /\ [][NextFetch]_vars

----------------------------------------------------------------------------
(* TradingAgent (trading-agent.ts) *)

\* lines 37-40
profitTarget == Frac(5, 1000)

stopLoss == Frac(3, 1000)

agentPositionSize == 100

agentMaxPositions == 3

\* visualization-service.ts, line 9, and MLStrategy.maxHistoryPoints
maxDataPoints == 50

maxHistoryPoints == 1000

\* trading-agent.ts, line 86, and MLStrategy.updatePredictions
MinHistory == 10

MinFeatures == 24

NoPrediction == [none |-> "prediction"]

ActiveSymbols == {s \in Symbols : activePositions[s] # NoPosition}

\* a faulty profit-and-loss: a short is measured like a long
calculatePnLLong(position, currentPrice) ==
    RDiv(RSub(currentPrice, position.entryPrice), position.entryPrice)

\* lines 194-203
calculatePnL(position, currentPrice) ==
    IF position.type = "long"
    THEN RDiv(RSub(currentPrice, position.entryPrice), position.entryPrice)
    ELSE RDiv(RSub(position.entryPrice, currentPrice), position.entryPrice)

\* a faulty limit: one position more
PositionsFullLate(active) == Cardinality({s \in Symbols : active[s] # NoPosition}) > agentMaxPositions

\* line 148
PositionsFull(active) == Cardinality({s \in Symbols : active[s] # NoPosition}) >= agentMaxPositions

\* lines 143-162 (the timestamp, which nothing reads, is left out)
openPosition(active, symbol, price, type) ==
    IF PositionsFull(active) THEN active
    ELSE [active EXCEPT ![symbol] =
             [symbol |-> symbol, entryPrice |-> price,
              quantity |-> Money(RDiv(R(agentPositionSize), price)), type |-> type]]

\* lines 84-129: what processPrice leaves of the positions; prediction is what
\* MLStrategy.getPrediction answers
processPrice(active, symbol, price, points, prediction) ==
    IF points < MinHistory THEN active
    ELSE IF prediction = NoPrediction \/ ~RGt(prediction.confidence, Frac(7, 10)) THEN active
    ELSE LET predictedChange == RDiv(RSub(prediction.predictedPrice, price), price)
         IN  IF RGt(predictedChange, profitTarget) /\ active[symbol] = NoPosition
             THEN openPosition(active, symbol, price, "long")
             ELSE IF RLt(predictedChange, RNeg(profitTarget)) /\ active[symbol] = NoPosition
             THEN openPosition(active, symbol, price, "short")
             ELSE active

\* a faulty check: the stop loss is not looked at
ShouldCloseOnProfit(position, currentPrice) ==
    RGe(calculatePnL(position, currentPrice), profitTarget)

\* lines 135-138
ShouldClose(position, currentPrice) ==
    LET pnl == calculatePnL(position, currentPrice)
    IN  RGe(pnl, profitTarget) \/ RLe(pnl, RNeg(stopLoss))

\* lines 168-178
MetricsAfterClose(m, position, currentPrice) ==
    LET profit     == Money(RMul(calculatePnL(position, currentPrice), R(agentPositionSize)))
        trades     == m.totalTrades + 1
        successful == IF RGt(profit, R(0)) THEN m.successfulTrades + 1 ELSE m.successfulTrades
        total      == RAdd(m.totalProfit, profit)
    IN  [totalTrades      |-> trades,
         successfulTrades |-> successful,
         totalProfit      |-> total,
         winRate          |-> Money(RMul(Frac(successful, trades), R(100))),
         averageProfit    |-> Money(RDiv(total, R(trades)))]

\* lines 65-82 with MarketDataService.subscribeToPriceUpdates and
\* BinanceAPI.subscribeToPriceUpdates: the first subscription to a symbol
\* closes the socket there is and opens one for the symbol
startTrading(symbol) ==
    /\ streaming' = IF priceUpdateCallbacks[symbol] = 0 THEN symbol ELSE streaming
    /\ priceUpdateCallbacks' = [priceUpdateCallbacks EXCEPT ![symbol] = @ + 1]
    /\ lastTick' = NoTick
    /\ UNCHANGED <<activePositions, metrics, pricePoints, historicalData>>
    /\ UNCHANGED <<strategyVars, calls, market, entries, storeVars, analysis, fetchVars, alertVars>>

\* lines 68-72: the socket delivers a trade and the agent's callback runs:
\* processPrice, checkPositions (with closePosition, lines 164-192) and
\* addPricePoint; processPrice reads the prediction before it gives the model
\* its next point, and the model predicts once it has MinFeatures points
PriceUpdate(price, predicted) ==
    /\ streaming # ""
    /\ LET symbol     == streaming
           prediction == IF historicalData[symbol] < MinFeatures THEN NoPrediction ELSE predicted
           processed  == processPrice(activePositions, symbol, price, pricePoints[symbol],
                                      prediction)
           position   == processed[symbol]
       IN  /\ historicalData' =
                 IF pricePoints[symbol] < MinHistory THEN historicalData
                 ELSE [historicalData EXCEPT
                          ![symbol] = IF @ + 1 > maxHistoryPoints THEN maxHistoryPoints ELSE @ + 1]
           /\ IF position # NoPosition /\ ShouldClose(position, price)
              THEN /\ metrics' = MetricsAfterClose(metrics, position, price)
                   /\ activePositions' = [processed EXCEPT ![symbol] = NoPosition]
              ELSE /\ metrics' = metrics
                   /\ activePositions' = processed
           /\ pricePoints' = [pricePoints EXCEPT
                                 ![symbol] = IF @ + 1 > maxDataPoints THEN maxDataPoints ELSE @ + 1]
           /\ lastTick' = [symbol |-> symbol, price |-> price,
                            closed |-> position # NoPosition /\ ShouldClose(position, price)]
    /\ UNCHANGED <<streaming, priceUpdateCallbacks>>
    /\ UNCHANGED <<strategyVars, calls, market, entries, storeVars, analysis, fetchVars, alertVars>>

\* the agent asked to trade one symbol after the other, each for so many trades
\* of the stream that its model has predicted a few times; the next symbol
\* follows when the one before it has left a position open and nothing has
\* been closed yet, so that the positions add up
AgentTicks == 36

AgentPrices == {R(100), Frac(1004, 10), Frac(995, 10)}

Predictions ==
    {[predictedPrice |-> R(102), confidence |-> Frac(95, 100)],
     [predictedPrice |-> R(98), confidence |-> Frac(95, 100)],
     [predictedPrice |-> R(102), confidence |-> Frac(7, 10)],
     NoPrediction}

SymbolOrder == <<"BTCUSDT", "ETHUSDT", "SOLUSDT", "BNBUSDT">>

NextAgent ==
    \/ \E n \in 1..Len(SymbolOrder) :
          /\ priceUpdateCallbacks[SymbolOrder[n]] = 0
          /\ \A m \in 1..(n - 1) : priceUpdateCallbacks[SymbolOrder[m]] > 0
          /\ IF streaming = "" THEN TRUE
             ELSE /\ pricePoints[streaming] >= AgentTicks
                  /\ activePositions[streaming] # NoPosition
                  /\ metrics.totalTrades = 0
          /\ startTrading(SymbolOrder[n])
    \/ \E price \in AgentPrices, predicted \in Predictions :
          /\ streaming # ""
          /\ pricePoints[streaming] < AgentTicks
          /\ PriceUpdate(price, predicted)

SpecAgent == Init /\ [][NextAgent]_vars

----------------------------------------------------------------------------

(* PriceAlertService (price-alert-service.ts) *)

\* What a callback does when it is called, as far as the service is concerned:
\* it logs ("log"), or it also creates an alert of the same symbol and
\* condition a step beyond the price it was called with, as the callbacks of
\* test.ts do ("rearm"), or it creates its own alert anew ("again")
Callbacks == {"log", "rearm", "again"}

\* test.ts, lines 37 and 54
RearmStep == Frac(1, 10)

\* line 28: the id, with Date.now() in it
AlertId(symbol, condition, price) == <<symbol, condition, price, now>>

\* Map.set (line 29): a new key goes to the end, a key there is keeps its place
MapSet(as, alert) ==
    IF \E j \in 1..Len(as) : as[j].id = alert.id
    THEN [j \in 1..Len(as) |-> IF as[j].id = alert.id THEN alert ELSE as[j]]
    ELSE Append(as, alert)

\* Map.delete (line 34)
MapDelete(as, id) == SelectSeq(as, LAMBDA a : a.id # id)

\* lines 22-31: the alerts and the log after createAlert; by is the alert whose
\* callback makes the call, 0 for a call from outside
Created(as, log, symbol, condition, price, callback, by) ==
    LET alert == [serial |-> Len(log) + 1, id |-> AlertId(symbol, condition, price),
                  symbol |-> symbol, condition |-> condition, price |-> price,
                  callback |-> callback]
    IN  <<MapSet(as, alert), Append(log, [alert |-> alert, by |-> by, calls |-> << >>])>>

\* a faulty condition: the threshold itself triggers
TriggeredAt(alert, symbol, currentPrice) ==
    /\ alert.symbol = symbol
    /\ \/ alert.condition = "above" /\ RGe(currentPrice, alert.price)
       \/ alert.condition = "below" /\ RLe(currentPrice, alert.price)

\* lines 39-44
Triggered(alert, symbol, currentPrice) ==
    /\ alert.symbol = symbol
    /\ \/ alert.condition = "above" /\ RGt(currentPrice, alert.price)
       \/ alert.condition = "below" /\ RLt(currentPrice, alert.price)

\* line 45: the alerts and the log after the callback of alert has run
Called(as, log, alert, currentPrice) ==
    LET logged == [log EXCEPT ![alert.serial].calls =
                      Append(@, [symbol |-> alert.symbol, price |-> currentPrice])]
    IN  IF alert.callback = "rearm"
        THEN Created(as, logged, alert.symbol, alert.condition,
                     IF alert.condition = "above" THEN RAdd(currentPrice, RearmStep)
                                                  ELSE RSub(currentPrice, RearmStep),
                     "log", alert.serial)
        ELSE IF alert.callback = "again"
        THEN Created(as, logged, alert.symbol, alert.condition, alert.price, "log", alert.serial)
        ELSE <<as, logged>>

\* lines 38-49: forEach from the i-th entry of the Map on; an entry added while
\* it runs is visited, and after the delete of line 46 the entries behind the
\* one visited have moved up
RECURSIVE Visited(_, _, _, _, _)
Visited(as, log, i, symbol, currentPrice) ==
    IF i > Len(as) THEN <<as, log>>
    ELSE IF Triggered(as[i], symbol, currentPrice)
    THEN LET called == Called(as, log, as[i], currentPrice)
         IN  Visited(MapDelete(called[1], as[i].id), called[2], i, symbol, currentPrice)
    ELSE Visited(as, log, i + 1, symbol, currentPrice)

\* lines 22-31; the run has room for so many calls from outside
createAlert(symbol, condition, price, callback, max) ==
    /\ Cardinality({k \in 1..Len(alertLog) : alertLog[k].by = 0}) < max
    /\ alerts' = Created(alerts, alertLog, symbol, condition, price, callback, 0)[1]
    /\ alertLog' = Created(alerts, alertLog, symbol, condition, price, callback, 0)[2]
    /\ UNCHANGED <<strategyVars, calls, market, entries, storeVars, analysis, fetchVars, agentVars>>

\* lines 33-35, with the id of an alert there is
removeAlert(j) ==
    /\ j \in 1..Len(alerts)
    /\ alerts' = MapDelete(alerts, alerts[j].id)
    /\ UNCHANGED alertLog
    /\ UNCHANGED <<strategyVars, calls, market, entries, storeVars, analysis, fetchVars, agentVars>>

\* lines 37-50
checkPrice(symbol, currentPrice) ==
    /\ alerts # << >>
    /\ alerts' = Visited(alerts, alertLog, 1, symbol, currentPrice)[1]
    /\ alertLog' = Visited(alerts, alertLog, 1, symbol, currentPrice)[2]
    /\ UNCHANGED <<strategyVars, calls, market, entries, storeVars, analysis, fetchVars, agentVars>>

\* lines 52-54
getActiveAlerts == alerts

\* alerts set, removed and checked from outside while the clock moves on by a
\* millisecond: alerts for one symbol with every callback, and a plain one for
\* another symbol
MaxAlerts == 2

AlertSymbols == {"BTCUSDT", "ETHUSDT"}

AlertThreshold == R(100)

AlertRequests ==
    [symbol : {"BTCUSDT"}, condition : {"above", "below"}, callback : Callbacks]
    \cup {[symbol |-> "ETHUSDT", condition |-> "above", callback |-> "log"]}

AlertPrices == {R(99), R(100), R(101)}

NextAlerts ==
    \/ \E request \in AlertRequests :
          createAlert(request.symbol, request.condition, AlertThreshold, request.callback,
                      MaxAlerts)
    \/ \E j \in 1..(2 * MaxAlerts) : removeAlert(j)
    \/ \E symbol \in AlertSymbols, currentPrice \in AlertPrices : checkPrice(symbol, currentPrice)
    \/ Advance(1, 1)

SpecAlerts == Init /\ [][NextAlerts]_vars

----------------------------------------------------------------------------

(* Properties of executeEntry and executeExit *)

\* caller c hands the signal it holds to executeEntry ("ENTRY") or executeExit
\* ("EXIT") in this step
Executes(c, type) ==
    /\ calls[c].pc = "returned"
    /\ calls[c].signal # NoSignal
    /\ calls[c].signal.type = type
    /\ calls'[c].pc = "idle"

\* C2: executeExit on an open position sets currentCapital to its previous value
\* plus the position's committed capital plus profit, where profit is
\* (exit price - entry price) * quantity, and removes the position
C2_ExitSettles ==
    [][\A c \in Callers :
          LET signal   == calls[c].signal
              position == positions[signal.tokenMint]
              profit   == Money(RMul(RSub(signal.price, position.entryPrice), position.amount))
          IN  Executes(c, "EXIT") /\ position # NoPosition
              => /\ currentCapital' = RAdd(RAdd(currentCapital, position.initialCapital), profit)
                 /\ positions' = [positions EXCEPT ![signal.tokenMint] = NoPosition]]_vars

\* a position of 6 entered at 100 has been closed at 104
C2_Witness ==
    /\ OpenTokens = {}
    /\ stats.totalTrades = 1
    /\ stats.totalProfit = Frac(24, 100)
    /\ currentCapital = Frac(2024, 100)

\* C8: executeEntry commits positionAmount = currentCapital * positionSize *
\* (1 - min(0.5, consecutiveLosses * 0.1)), buys positionAmount / price, records
\* positionAmount as the committed capital and debits it from currentCapital;
\* from capital 20 with no losses at price 100 that is 6, 0.06 and 14; the
\* reduction never exceeds one half
C8_EntrySizing ==
    [][\A c \in Callers :
          LET signal    == calls[c].signal
              reduction == RMin(Frac(5, 10), RMul(R(consecutiveLosses), Frac(1, 10)))
              amount    == Money(RMul(RMul(currentCapital, positionSize), RSub(R(1), reduction)))
              position  == positions'[signal.tokenMint]
          IN  Executes(c, "ENTRY")
              => /\ position # NoPosition
                 /\ position.initialCapital = amount
                 /\ position.amount = Money(RDiv(amount, signal.price))
                 /\ position.entryPrice = signal.price
                 /\ currentCapital' = RSub(currentCapital, amount)
                 /\ RGe(amount, Money(RMul(RMul(currentCapital, positionSize), Frac(1, 2))))
                 /\ (currentCapital = R(20) /\ consecutiveLosses = 0 /\ signal.price = R(100))
                    => /\ position.initialCapital = R(6)
                       /\ position.amount = Frac(6, 100)
                       /\ currentCapital' = R(14)]_vars

\* a position has been entered after six losses in a row, at half size
C8_Witness ==
    \E t \in Tokens :
        /\ positions[t] # NoPosition
        /\ consecutiveLosses >= 6
        /\ positions[t].initialCapital
             = Money(RMul(RAdd(currentCapital, positions[t].initialCapital), Frac(15, 100)))

\* C9: when positionAmount would be non-positive, executeEntry fails: it creates
\* no position and leaves currentCapital as it was
C9_NoEntryWithoutCapital ==
    [][\A c \in Callers :
          LET reduction == RMin(Frac(5, 10), RMul(R(consecutiveLosses), Frac(1, 10)))
              amount    == RMul(RMul(currentCapital, positionSize), RSub(R(1), reduction))
          IN  Executes(c, "ENTRY") /\ RLe(amount, R(0))
              => positions' = positions /\ currentCapital' = currentCapital]_vars

\* C10: every successful executeExit adds one to totalTrades and profit to
\* totalProfit; with profit > 0 it adds one to winningTrades and resets
\* consecutiveLosses to 0, otherwise (a break-even exit included) it adds one to
\* consecutiveLosses and leaves winningTrades
C10_ExitCounts ==
    [][\A c \in Callers :
          LET signal   == calls[c].signal
              position == positions[signal.tokenMint]
              profit   == Money(RMul(RSub(signal.price, position.entryPrice), position.amount))
          IN  Executes(c, "EXIT") /\ position # NoPosition
              => /\ stats'.totalTrades = stats.totalTrades + 1
                 /\ stats'.totalProfit = RAdd(stats.totalProfit, profit)
                 /\ IF RGt(profit, R(0))
                    THEN /\ stats'.winningTrades = stats.winningTrades + 1
                         /\ consecutiveLosses' = 0
                    ELSE /\ stats'.winningTrades = stats.winningTrades
                         /\ consecutiveLosses' = consecutiveLosses + 1]_vars

\* a win of 0.24 has been followed by a break-even exit
C10_Witness ==
    /\ stats.totalTrades = 2
    /\ stats.winningTrades = 1
    /\ stats.totalProfit = Frac(24, 100)
    /\ consecutiveLosses = 1

----------------------------------------------------------------------------
(* Properties of analyzeTradeOpportunity *)

\* caller c holds the signal, of the given type, that its call returned
Holds(c, type) ==
    /\ calls[c].pc = "returned"
    /\ calls[c].signal # NoSignal
    /\ calls[c].signal.type = type

\* C1: no position is opened for a token that already has one: no call returns
\* an ENTRY signal for such a token and no executeEntry creates or replaces a
\* position while one is open for the token
C1_OnePositionPerToken ==
    [][\A c \in Callers :
          Executes(c, "ENTRY") => positions[calls[c].signal.tokenMint] = NoPosition]_vars

\* C3: once consecutiveLosses has reached consecutiveLossLimit, no call goes on to
\* the entry check or returns an ENTRY signal, for any token
C3_Throttle ==
    consecutiveLosses >= consecutiveLossLimit
    => \A c \in Callers : calls[c].pc \notin {"entryVolume", "entryPrice"} /\ ~Holds(c, "ENTRY")

\* five exits in a row have lost, and a call for a token without a position, on a
\* trend that qualifies for an entry, has returned no signal
C3_Witness ==
    /\ consecutiveLosses = consecutiveLossLimit
    /\ \E c \in Callers :
          /\ calls[c].pc = "returned"
          /\ calls[c].signal = NoSignal
          /\ calls[c].position = NoPosition
          /\ calls[c].trend = analyzeTrend(HistBull)

\* C4: the number of open positions never exceeds maxPositions, however calls
\* for different tokens interleave
C4_AtMostMaxPositions ==
    Cardinality(OpenTokens) <= maxPositions

\* C5: a call for a token with an open position, made while the feed quotes a
\* price at or below the stop-loss, returns an EXIT signal whatever the trend,
\* and also when there is no trend; only a failed price lookup excuses it
C5_StopLossAlways ==
    [][\A c \in Callers :
          LET call == calls'[c]
          IN  (/\ calls[c].pc # "returned"
               /\ call.pc = "returned"
               /\ call.position # NoPosition
               /\ RLe(PriceChange(call.position, market[call.token]), R(-stopLossPercent))
               /\ ~(call.trend # NoTrend /\ call.currentPrice = R(0)))
              => call.signal # NoSignal /\ call.signal.type = "EXIT"]_vars

\* C6: with the price looked up, the exit check returns an EXIT signal exactly
\* when the price change is at or below -stopLossPercent, or at or above the
\* dynamic take-profit, or positive under a reversal or a BEARISH trend
C6_ExitConditions ==
    \A c \in Callers :
        LET call   == calls[c]
            change == RMul(RDiv(RSub(call.currentPrice, call.position.entryPrice),
                                call.position.entryPrice), R(100))
            target == RMin(RMul(R(2), RAdd(R(1), RDiv(call.trend.strength, R(100)))), R(4))
        IN  (/\ call.pc = "returned"
             /\ call.position # NoPosition
             /\ call.trend # NoTrend
             /\ RGt(call.currentPrice, R(0)))
            => (Holds(c, "EXIT")
                <=> \/ RLe(change, R(-1))
                    \/ RGe(change, target)
                    \/ (call.trend.isReversal \/ call.trend.direction = "BEARISH")
                       /\ RGt(change, R(0)))

\* under a reversal, with the price where the position was entered, the exit
\* check has returned no signal
C6_Witness ==
    \E c \in Callers :
        /\ calls[c].pc = "returned"
        /\ calls[c].position # NoPosition
        /\ calls[c].trend # NoTrend
        /\ calls[c].trend.isReversal
        /\ calls[c].currentPrice = calls[c].position.entryPrice
        /\ calls[c].signal = NoSignal

----------------------------------------------------------------------------
(* Properties of the performance ledger *)

\* C11: maxDrawdown is the lowest value (currentCapital - initialCapital) /
\* initialCapital * 100 has taken after any entry or exit, or 0 if it was never
\* negative; so it is never above the present value of that expression
C11_DrawdownTracksCapital ==
    RLe(getStats.maxDrawdown,
        RMul(RDiv(RSub(currentCapital, R(InitialCapital)), R(InitialCapital)), R(100)))

\* C12: 0 <= winningTrades <= totalTrades and maxDrawdown <= 0 in every state,
\* and maxDrawdown never increases
C12_LedgerInvariants ==
    [][/\ 0 <= stats.winningTrades /\ stats.winningTrades <= stats.totalTrades
       /\ 0 <= stats'.winningTrades /\ stats'.winningTrades <= stats'.totalTrades
       /\ RLe(stats.maxDrawdown, R(0))
       /\ RLe(stats'.maxDrawdown, stats.maxDrawdown)]_vars

\* wins and losses have both been counted and a drawdown recorded
C12_Witness ==
    /\ 0 < stats.winningTrades
    /\ stats.winningTrades < stats.totalTrades
    /\ RLt(stats.maxDrawdown, R(0))

\* C13: the capital getStats reports is the strategy's currentCapital in every
\* state, between an entry and the next exit included
C13_StatsCapitalCurrent ==
    getStats.currentCapital = currentCapital

\* C14: no step of analyzeTradeOpportunity changes positions, currentCapital,
\* consecutiveLosses or stats, whatever its lookups answer, and currentCapital
\* changes only in a step of executeEntry or executeExit
C14_DecideReadOnly ==
    [][/\ \A c \in Callers :
            calls[c].pc # "returned" /\ calls'[c] # calls[c] => UNCHANGED strategyVars
       /\ currentCapital' # currentCapital
            => \E c \in Callers : Executes(c, "ENTRY") \/ Executes(c, "EXIT")]_vars

\* with the account no longer as it began, a call has returned an EXIT signal
\* after a price lookup that failed
C14_Witness ==
    /\ currentCapital # R(InitialCapital)
    /\ \E c \in Callers : Holds(c, "EXIT") /\ calls[c].i > 0

----------------------------------------------------------------------------
(* Properties of the MarketDataService *)

\* what the service holds, the clock and the record of the last step apart
trackingVars == <<marketData, dataObjects, updateIntervals, timerDue, updating, starting>>

\* C16: an updatePrice that began before stopTracking and ends after it changes
\* nothing: once stopped, a token becomes tracked again only by a startTracking
C16_StoppedStaysStopped ==
    [][\A t \in Tokens :
          ~Tracked(t) /\ marketData'[t] # 0 => storeOp'.op = "startTrackingDone"]_vars

\* C17: stopTracking of a tracked token cancels its timer and discards its state,
\* so that the accessors answer null and an empty history afterwards;
\* stopTracking of an untracked token changes nothing
C17_StopDiscards ==
    [][\A t \in Tokens :
          storeOp'.op = "stopTracking" /\ storeOp'.token = t
          => IF Tracked(t)
             THEN /\ marketData'[t] = 0
                  /\ updateIntervals'[t] = 0
                  /\ timerDue'[updateIntervals[t]] = -1
             ELSE UNCHANGED trackingVars]_vars

\* C18: startTracking of a token that is tracked begins no lookup, creates no
\* timer and changes no state; a startTracking that creates the state gives it a
\* history of exactly one sample
C18_StartIdempotent ==
    [][\A t \in Tokens :
          /\ storeOp'.op = "startTracking" /\ storeOp'.token = t /\ Tracked(t)
               => UNCHANGED trackingVars
          /\ storeOp'.op = "startTrackingDone" /\ storeOp'.token = t
               => Len(dataObjects'[marketData'[t]].priceHistory) = 1]_vars

\* startTracking has just been called for a token that was tracked, with an
\* update behind it
C18_Witness ==
    /\ storeOp.op = "startTracking"
    /\ Tracked(storeOp.token)
    /\ dataObjects[marketData[storeOp.token]].updateCount > 1

\* C19: a history never holds more than historyLength samples, and an update
\* that is applied leaves the history it found with the new sample at the end
\* and, beyond historyLength, without its oldest samples
C19_HistoryFifo ==
    [][\A d \in 1..MaxStarts :
          dataObjects[d] # NoData
          => LET old     == dataObjects[d].priceHistory
                 new     == dataObjects'[d].priceHistory
                 sample  == [timestamp |-> now,
                             price     |-> dataObjects'[d].currentPrice,
                             volume24h |-> dataObjects'[d].currentVolume24h]
                 applied == /\ storeOp'.op = "updatePrice"
                            /\ updating'[d] < updating[d]
                            /\ 10 * (now - dataObjects[d].lastUpdated) >= 9 * updateInterval
             IN  /\ Len(old) <= historyLength
                 /\ Len(new) <= historyLength
                 /\ applied => new = IF Len(old) < historyLength
                                     THEN Append(old, sample)
                                     ELSE Append(Tail(old), sample)
                 /\ ~applied => new = old]_vars

\* a full history has lost its first sample to a new one
C19_Witness ==
    \E d \in 1..MaxStarts :
        /\ dataObjects[d] # NoData
        /\ Len(dataObjects[d].priceHistory) = historyLength
        /\ dataObjects[d].updateCount > historyLength

\* C20: an update whose lookups succeeded less than 0.9 * updateInterval after
\* lastUpdated changes nothing of the token's state
C20_Debounce ==
    [][\A d \in 1..MaxStarts :
          (/\ storeOp'.op = "updatePrice"
           /\ updating'[d] < updating[d]
           /\ 10 * (now - dataObjects[d].lastUpdated) < 9 * updateInterval)
          => dataObjects' = dataObjects /\ marketData' = marketData]_vars

\* an update has just been dropped: its lookups succeeded and no state is as
\* recent as the clock
C20_Witness ==
    /\ storeOp.op = "updatePrice"
    /\ \E d \in 1..MaxStarts : dataObjects[d] # NoData
    /\ \A d \in 1..MaxStarts :
          dataObjects[d] # NoData
          => dataObjects[d].lastUpdated < now /\ TooSoon(dataObjects[d])

\* C21: the timestamps of every history are non-decreasing from the oldest
\* sample to the newest, whatever the order in which the updates in flight end
C21_TimestampsOrdered ==
    \A d \in 1..MaxStarts :
        dataObjects[d] # NoData
        => \A i \in 1..Len(dataObjects[d].priceHistory) :
              \A j \in i..Len(dataObjects[d].priceHistory) :
                 dataObjects[d].priceHistory[i].timestamp
                     <= dataObjects[d].priceHistory[j].timestamp

\* an update has just been applied while another one for the same object is
\* still in flight
C21_Witness ==
    /\ storeOp.op = "updatePrice"
    /\ \E d \in 1..MaxStarts :
          /\ dataObjects[d] # NoData
          /\ Len(dataObjects[d].priceHistory) >= 2
          /\ dataObjects[d].lastUpdated = now
          /\ updating[d] > 0

\* C22: a sample whose price or volume is not finite or is negative is refused:
\* no history holds one, and no current price or volume is one
C22_InvalidSampleRefused ==
    \A d \in 1..MaxStarts :
        dataObjects[d] # NoData
        => LET data   == dataObjects[d]
               Fine(x) == IsFinite(x) /\ x[1] >= 0
           IN  /\ Fine(data.currentPrice) /\ Fine(data.currentVolume24h)
               /\ \A i \in 1..Len(data.priceHistory) :
                     Fine(data.priceHistory[i].price) /\ Fine(data.priceHistory[i].volume24h)

\* C23: an update that fails adds one to the error count of the state it holds
\* and changes nothing else, neither the state nor the maps nor the timers,
\* however many errors there are already; an update that is applied sets the
\* count to 0 and counts as one more update; nothing else touches the count
C23_ErrorCount ==
    [][\A d \in 1..MaxStarts :
          dataObjects[d] # NoData
          => LET done    == updating'[d] < updating[d]
                 failed  == done /\ storeOp'.op = "updatePriceFailed"
                 applied == /\ done
                            /\ storeOp'.op = "updatePrice"
                            /\ 10 * (now - dataObjects[d].lastUpdated) >= 9 * updateInterval
             IN  /\ failed => /\ dataObjects'[d] = [dataObjects[d] EXCEPT !.errors = @ + 1]
                              /\ UNCHANGED <<marketData, updateIntervals, timerDue>>
                 /\ applied => /\ dataObjects'[d].errors = 0
                               /\ dataObjects'[d].updateCount = dataObjects[d].updateCount + 1
                               /\ dataObjects'[d].lastUpdated = now
                 /\ ~failed /\ ~applied => dataObjects'[d].errors = dataObjects[d].errors]_vars

\* the error count of a token has reached the threshold: the token is tracked,
\* its timer is set and an update is in flight
C23_Witness ==
    \E t \in Tokens :
        /\ Tracked(t)
        /\ dataObjects[marketData[t]].errors >= maxErrors
        /\ updateIntervals[t] # 0
        /\ timerDue[updateIntervals[t]] > now
        /\ updating[marketData[t]] > 0

\* C24: while a token is tracked, its lookups succeed and its timer fires, the
\* updates keep being applied: from every state in which the clock of the run
\* leaves two intervals to go, an update is applied at a later time than that,
\* so that updateCount passes the value it had; the debounce never holds the
\* updates back for good
C24_UpdatesKeepComing ==
    (Tracked("SOL") /\ now <= (LiveClock - 4) * ClockStep)
    ~> (Tracked("SOL") /\ dataObjects[marketData["SOL"]].lastUpdated > (LiveClock - 4) * ClockStep)

\* the debounce has just dropped an update of the tracked token, with two
\* intervals to go
C24_Witness ==
    /\ storeOp.op = "updatePrice"
    /\ Tracked("SOL")
    /\ dataObjects[marketData["SOL"]].lastUpdated < now
    /\ 10 * (now - dataObjects[marketData["SOL"]].lastUpdated) < 9 * updateInterval
    /\ now <= (LiveClock - 4) * ClockStep

----------------------------------------------------------------------------
(* Properties of the TrendAnalyzer *)

\* C25: whatever history of two samples or more the store holds, the strength
\* and the confidence that analyzeTrend returns are numbers from 0 to 100
C25_StrengthInRange ==
    analysis.result # NoTrend
    => /\ RGe(analysis.result.strength, R(0)) /\ RLe(analysis.result.strength, R(100))
       /\ RGe(analysis.result.confidence, R(0)) /\ RLe(analysis.result.confidence, R(100))

MeanOfLast(history, n) ==
    LET len  == Len(history)
        m    == IF n < len THEN n ELSE len
    IN  RDiv(SumPrices(history, len - m + 1, len), R(m))

\* C27: the sma20 and the sma50 of an analysis are the arithmetic means of the
\* last 20 and the last 50 prices of the history, or of all its prices when it
\* has fewer
C27_SmaIsMean ==
    analysis.result # NoTrend
    => /\ analysis.result.sma20 = MeanOfLast(analysis.history, 20)
       /\ analysis.result.sma50 = MeanOfLast(analysis.history, 50)

\* C28: with the price change from the first sample of the history to the last,
\* in percent, the direction is BULLISH exactly when the change is above 5 and
\* sma20 above sma50, BEARISH exactly when the change is below -5 and sma20
\* below sma50, and SIDEWAYS otherwise; for 100, 103, 106, 110 the change is 10
C28_DirectionRule ==
    analysis.result # NoTrend
    => LET h      == analysis.history
           first  == h[1].price
           last   == h[Len(h)].price
           change == RMul(RDiv(RSub(last, first), first), R(100))
           up     == RGt(change, R(5)) /\ RGt(analysis.result.sma20, analysis.result.sma50)
           down   == RLt(change, R(-5)) /\ RLt(analysis.result.sma20, analysis.result.sma50)
       IN  /\ analysis.result.direction = "BULLISH" <=> up
           /\ analysis.result.direction = "BEARISH" <=> down
           /\ analysis.result.direction = "SIDEWAYS" <=> ~up /\ ~down
           /\ h = HistScenario => change = R(10) /\ analysis.result.priceChange = R(10)

\* an analysis of a history that rose by more than 5 percent with sma20 above
\* sma50: BULLISH
C28_Witness ==
    /\ analysis.result # NoTrend
    /\ RGt(analysis.result.priceChange, R(5))
    /\ RGt(analysis.result.sma20, analysis.result.sma50)
    /\ analysis.result.direction = "BULLISH"

----------------------------------------------------------------------------
(* Properties of JupiterService.rateLimitedFetch *)

\* C29: any two requests issued through rateLimitedFetch are at least
\* minRequestInterval apart
C29_RequestsSpaced ==
    \A i \in 1..Len(requests) :
        \A j \in (i + 1)..Len(requests) :
            requests[j] - requests[i] >= minRequestInterval

\* C30: the wait after a 429 is 1 s on the first attempt and doubles with each
\* attempt after it, and is never more than 10 s
C30_RateLimitBackoff ==
    \A c \in Fetchers :
        fetches[c].pc = "backoff" /\ fetches[c].cause = "429"
        => /\ fetches[c].wait = R(1000 * 2 ^ fetches[c].i)
           /\ RLe(fetches[c].wait, R(10000))

----------------------------------------------------------------------------
(* Properties of the TradingAgent *)

\* C31: a trade of the stream closes the position of its symbol exactly when
\* the profit-and-loss ratio of the position at the trade's price, (price -
\* entry) / entry for a long and (entry - price) / entry for a short, is at
\* least 0.5% or at most -0.3%; it then adds one to totalTrades and removes the
\* position, and otherwise keeps it and the count; no trade replaces an open
\* position or touches the position of another symbol, and no more than three
\* positions are open
C31_ClosesAtThreshold ==
    [][/\ Cardinality({s \in Symbols : activePositions[s] # NoPosition}) <= 3
       /\ Cardinality({s \in Symbols : activePositions'[s] # NoPosition}) <= 3
       /\ lastTick'.symbol # ""
          => LET symbol   == lastTick'.symbol
                 price    == lastTick'.price
                 position == activePositions[symbol]
                 change   == RDiv(RSub(price, position.entryPrice), position.entryPrice)
                 pnl      == IF position.type = "long" THEN change ELSE RNeg(change)
             IN  /\ \A s \in Symbols \ {symbol} : activePositions'[s] = activePositions[s]
                 /\ IF position = NoPosition
                    THEN /\ metrics'.totalTrades = metrics.totalTrades
                         /\ \/ activePositions'[symbol] = NoPosition
                            \/ activePositions'[symbol].entryPrice = price
                    ELSE IF RGe(pnl, Frac(5, 1000)) \/ RLe(pnl, Frac(-3, 1000))
                    THEN /\ activePositions'[symbol] = NoPosition
                         /\ metrics'.totalTrades = metrics.totalTrades + 1
                    ELSE /\ activePositions'[symbol] = position
                         /\ metrics'.totalTrades = metrics.totalTrades]_vars

\* a trade has just closed the position of its symbol at a loss while the
\* position of another symbol stays open
C31_Witness ==
    /\ lastTick.closed
    /\ activePositions[lastTick.symbol] = NoPosition
    /\ \E s \in Symbols : activePositions[s] # NoPosition
    /\ metrics.totalTrades = 1
    /\ RLt(metrics.totalProfit, R(0))

----------------------------------------------------------------------------
(* Properties of the PriceAlertService *)

\* C32: the callback of an alert is called at most once, and only by a
\* checkPrice for the symbol of the alert with a price strictly above its
\* threshold (condition above) or strictly below it (condition below); once it
\* has been called, the alert is not among the active alerts; this also when
\* callbacks create alerts while checkPrice goes through them
C32_AlertsOneShot ==
    \A k \in 1..Len(alertLog) :
        LET alert == alertLog[k].alert
            fired == alertLog[k].calls
        IN  /\ Len(fired) <= 1
            /\ \A n \in 1..Len(fired) :
                  /\ fired[n].symbol = alert.symbol
                  /\ alert.condition = "above" => RGt(fired[n].price, alert.price)
                  /\ alert.condition = "below" => RLt(fired[n].price, alert.price)
            /\ Len(fired) = 1
                 => \A j \in 1..Len(getActiveAlerts) : getActiveAlerts[j].serial # k

\* an alert that a callback created while checkPrice went through the alerts
\* has been called by that same checkPrice, and an alert of the other symbol
\* is still active
C32_Witness ==
    /\ \E k \in 1..Len(alertLog) :
          /\ alertLog[k].by # 0
          /\ Len(alertLog[k].calls) = 1
          /\ alertLog[k].calls = alertLog[alertLog[k].by].calls
    /\ \E j \in 1..Len(alerts) : Len(alertLog[alerts[j].serial].calls) = 0

----------------------------------------------------------------------------
(* Properties of the strategy's account *)

\* the capital committed to the open positions of the tokens T
RECURSIVE CommittedCapital(_)
CommittedCapital(T) ==
    IF T = {} THEN R(0)
    ELSE LET t == CHOOSE x \in T : TRUE
         IN  RAdd(positions[t].initialCapital, CommittedCapital(T \ {t}))

\* C33: currentCapital plus the capital committed to the open positions is
\* initialCapital plus totalProfit, after any sequence of executeEntry and
\* executeExit, also when an entry is for a token that has a position or an
\* exit for one that has none
C33_CapitalConserved ==
    RAdd(currentCapital, CommittedCapital(OpenTokens))
        = RAdd(R(InitialCapital), stats.totalProfit)

\* C34: from initialCapital 20, after any sequence of executeEntry and
\* executeExit calls with signals at prices above 0, currentCapital is above 0
C34_CapitalPositive ==
    RGt(currentCapital, R(0))

\* positions have been given up at a hundredth of their price, and one is open
C34_Witness ==
    /\ OpenTokens # {}
    /\ stats.totalTrades >= 2
    /\ RLt(stats.totalProfit, R(-10))
    /\ RLt(currentCapital, R(5))

----------------------------------------------------------------------------
(* Properties of the strategy on the store of the tests *)

\* C35: the store of the tests keeps fewer than 20 samples of a token; an
\* analysis of such a history has sma20 equal to sma50, direction SIDEWAYS and
\* isReversal false, and no decision on it gets past the trend checks of
\* checkEntryConditions: no ENTRY signal is returned and no position is opened
C35_NoEntryOnShortHistory ==
    /\ Len(getPriceHistory("SOL")) < 20
    /\ calls[1].trend # NoTrend
          => /\ calls[1].trend.sma20 = calls[1].trend.sma50
             /\ calls[1].trend.direction = "SIDEWAYS"
             /\ ~calls[1].trend.isReversal
    /\ calls[1].pc \in {"idle", "entryVolume", "returned"}
    /\ calls[1].signal = NoSignal
    /\ OpenTokens = {}

\* a decision has returned nothing on a full history of the store of the tests
\* that rose by 10 percent with rising volume, at a strength and a confidence
\* that would do for an entry
C35_Witness ==
    /\ Len(getPriceHistory("SOL")) = historyLength
    /\ calls[1].pc = "returned"
    /\ calls[1].trend # NoTrend
    /\ calls[1].trend.priceChange = R(10)
    /\ RGe(calls[1].trend.strength, R(minTrendStrength))
    /\ RGe(calls[1].trend.confidence, R(minConfidence))
    /\ RGe(calls[1].volume24h, R(minVolume))

----------------------------------------------------------------------------
(* Properties of the timers of the MarketDataService *)

\* C36: in every state of the store the live timers are one-to-one with the
\* tracked tokens: a token with state has exactly one live timer, the one of
\* updateIntervals, and no timer is live for a token without state or besides
\* the one recorded for its token
C36_TimersMatchTracked ==
    LET Live(t) == {k \in 1..MaxStarts :
                        /\ dataObjects[k] # NoData
                        /\ dataObjects[k].symbol = t
                        /\ timerDue[k] >= 0}
    IN  \A t \in Tokens :
           IF Tracked(t)
           THEN updateIntervals[t] # 0 /\ Live(t) = {updateIntervals[t]}
           ELSE Live(t) = {}

----------------------------------------------------------------------------
(* Properties of the loss throttle in the loop *)

\* C37: in the loop, once consecutiveLosses has reached consecutiveLossLimit
\* with no position open, it stays so: no position is opened, no decision goes
\* on to the entry check or returns an ENTRY signal, and consecutiveLosses never
\* decreases
C37_ThrottleAbsorbing ==
    [][consecutiveLosses >= consecutiveLossLimit /\ OpenTokens = {}
       => /\ consecutiveLosses' >= consecutiveLosses
          /\ \A t \in Tokens : positions'[t] = NoPosition
          /\ \A c \in Callers :
                /\ calls'[c].pc \notin {"entryVolume", "entryPrice"}
                /\ calls'[c].signal = NoSignal]_vars

\* the book is flat after more losses in a row than the limit, and a decision
\* on a rising trend has returned nothing
C37_Witness ==
    /\ consecutiveLosses > consecutiveLossLimit
    /\ OpenTokens = {}
    /\ calls[1].pc = "returned"
    /\ calls[1].signal = NoSignal
    /\ calls[1].trend = analyzeTrend(HistBull)

----------------------------------------------------------------------------
(* Properties of the exit check *)

\* C39: the take-profit threshold lies between 2% and 4%: an exit check that
\* has a trend and a price above 0 returns an EXIT signal for a position that
\* is up by 4% or more on its entry price, and returns nothing for a position
\* whose change is above -1% and below 2% while the trend is neither a reversal
\* nor BEARISH; the change is the one on the entry price, whatever takeProfit
\* and stopLoss the position records
C39_TakeProfitBand ==
    \A c \in Callers :
       LET call   == calls[c]
           entry  == call.position.entryPrice
           change == RMul(RDiv(RSub(call.currentPrice, entry), entry), R(100))
       IN  /\ call.pc = "returned"
           /\ call.position # NoPosition
           /\ call.trend # NoTrend
           /\ RGt(call.currentPrice, R(0))
           => /\ RGe(change, R(2 * takeProfitPercent))
                    => call.signal # NoSignal /\ call.signal.type = "EXIT"
              /\ /\ RGt(change, R(-stopLossPercent))
                 /\ RLt(change, R(takeProfitPercent))
                 /\ ~call.trend.isReversal
                 /\ call.trend.direction # "BEARISH"
                 => call.signal = NoSignal

=============================================================================
